---- MODULE Spec2Model ----
(***************************************************************************)
(* Model of the carbon-dashboard API (FastAPI service, src/app.py and      *)
(* src/modules).  The module holds four state machines over one set of     *)
(* variables:                                                              *)
(*   SpecNorm   - the column normalizer norm (modules/common.py)           *)
(*   SpecReport - the text-report parser (modules/lowcarbon.py)            *)
(*   SpecLoad   - the table loader and its caching consumer                *)
(*                (modules/common.py, modules/dashboard_scope_summary.py)  *)
(*   Spec       - the period-keyed HTTP endpoint handlers                  *)
(*                                                                         *)
(* Python strings are sequences of one-character strings.  A character     *)
(* outside ASCII is written by its code point, "U+FF1A" being the          *)
(* full-width colon.                                                       *)
(***************************************************************************)
EXTENDS Integers, Sequences, FiniteSets, TLC

VARIABLES
    raw,        \* SpecNorm: the header token handed to norm
    key,        \* SpecNorm: Some(norm(raw)), or None
    rekey,      \* SpecNorm: Some(norm(norm(raw))), or None
    report,     \* SpecReport: the report text
    parsed,     \* SpecReport: the outcome of the last parser call
    sheet,      \* SpecLoad: the rows pd.read_excel(header=None) returns
    loaded,     \* SpecLoad: the outcome of load_table_from_excel
    tableCache, \* SpecLoad: dashboard_scope_summary._TABLE
    tableOut,   \* SpecLoad: the outcome of the last table() call
    fs,         \* Spec: state of the data files
    cache,      \* Spec: which module-level cache slots are populated
    resp        \* Spec: the last request and its HTTP status

normVars   == <<raw, key, rekey>>
reportVars == <<report, parsed>>
loadVars   == <<sheet, loaded, tableCache, tableOut>>
svcVars    == <<fs, cache, resp>>
vars       == <<raw, key, rekey, report, parsed, sheet, loaded, tableCache,
                tableOut, fs, cache, resp>>

\* Python's None, and a value that is present.
None == [k |-> "none"]
Some(v) == [k |-> "some", v |-> v]

(***************************************************************************)
(* Generic helpers on sequences (Python str / list semantics).             *)
(***************************************************************************)

\* All sequences over S of length 0..n.
SeqsUpTo(S, n) == UNION {[1..m -> S] : m \in 0..n}

\* s[from:] in Python terms, from being a 1-based index here.
DropTo(s, from) == SubSeq(s, from, Len(s))

\* True iff pat occurs in s starting at 1-based position i.
OccursAt(s, pat, i) ==
    /\ i >= 1
    /\ i + Len(pat) - 1 <= Len(s)
    /\ \A j \in 1..Len(pat) : s[i + j - 1] = pat[j]

\* Python's "pat in s" for strings.
Contains(s, pat) == \E i \in 1..(Len(s) + 1) : OccursAt(s, pat, i)

RECURSIVE Concat(_)
\* "".join(parts)
Concat(parts) ==
    IF parts = <<>> THEN <<>> ELSE Head(parts) \o Concat(Tail(parts))

RECURSIVE Join(_, _)
\* sep.join(parts)
Join(sep, parts) ==
    IF parts = <<>> THEN <<>>
    ELSE IF Len(parts) = 1 THEN Head(parts)
    ELSE Head(parts) \o sep \o Join(sep, Tail(parts))

(***************************************************************************)
(* modules/common.py : the column normalizer                               *)
(***************************************************************************)

FwColon  == "U+FF1A"   \* full-width colon
FwLParen == "U+FF08"   \* full-width left parenthesis
FwRParen == "U+FF09"   \* full-width right parenthesis
ChFan    == "U+8303"   \* first character of the word "scope" (fan)
ChWei    == "U+56F4"   \* second character of the word "scope" (wei)
ChDun    == "U+5428"   \* the unit "ton" (dun)
ChZhou   == "U+5468"   \* first character of "period" (zhou); alone: "week"
ChQi     == "U+671F"   \* second character of "period" (qi)
ChNian   == "U+5E74"   \* "year" (nian)
ChRi     == "U+65E5"   \* "day" (ri)
NL       == "\n"

\* The characters re's \s matches among those the model uses.
Whitespace == {" ", NL, "\t"}

\* s.replace(full-width colon, ":").replace(full-width "(", "(")
\*  .replace(full-width ")", ")")
ReplaceFullWidth(s) ==
    [i \in DOMAIN s |->
        CASE s[i] = FwColon  -> ":"
          [] s[i] = FwLParen -> "("
          [] s[i] = FwRParen -> ")"
          [] OTHER           -> s[i]]

RECURSIVE CloseAt(_, _)
\* The 1-based position, at or after i, of the ")" that ends a match of
\* \(.*?\) whose "(" has just been consumed: the first ")" with no newline
\* before it ("." does not match a newline: no re.DOTALL).  0 if none.
CloseAt(s, i) ==
    IF i > Len(s) THEN 0
    ELSE IF s[i] = ")" THEN i
    ELSE IF s[i] = NL THEN 0
    ELSE CloseAt(s, i + 1)

RECURSIVE StripParens(_)
\* re.sub(r"\(.*?\)", "", s): leftmost, non-overlapping, non-greedy.
StripParens(s) ==
    IF s = <<>> THEN <<>>
    ELSE IF Head(s) = "(" /\ CloseAt(s, 2) > 0
         THEN StripParens(DropTo(s, CloseAt(s, 2) + 1))
         ELSE <<Head(s)>> \o StripParens(Tail(s))

\* re.sub(r"\s+", "", s)
StripSpaces(s) == SelectSeq(s, LAMBDA c : c \notin Whitespace)

RECURSIVE LStrip(_)
LStrip(s) ==
    IF s # <<>> /\ Head(s) \in Whitespace THEN LStrip(Tail(s)) ELSE s

RECURSIVE RStrip(_)
RStrip(s) ==
    IF s # <<>> /\ s[Len(s)] \in Whitespace
    THEN RStrip(SubSeq(s, 1, Len(s) - 1)) ELSE s

\* str.strip()
Strip(s) == RStrip(LStrip(s))

\* A slip a maintainer could make: the whitespace pass left out.
norm_keep_spaces(s) == Strip(StripParens(ReplaceFullWidth(s)))

\* norm(s), common.py
norm(s) == Strip(StripSpaces(StripParens(ReplaceFullWidth(s))))

(***************************************************************************)
(* SpecNorm: norm applied to a header token, then to its own result.       *)
(***************************************************************************)

MaxTokenLen == 3

NormAlphabet == {"a", "1", "(", ")", FwLParen, FwRParen, ":", FwColon, " ", NL}

\* The three header tokens of the scope-1 column (spec section 8).
HeaderSpaced == <<ChFan, ChWei, " ", "1", FwColon>>
HeaderUnit   == <<ChFan, ChWei, "1", "(", ChDun, ")">>
HeaderPlain  == <<ChFan, ChWei, "1">>
ScopeHeaders == {HeaderSpaced, HeaderUnit, HeaderPlain}

NormInputs == SeqsUpTo(NormAlphabet, MaxTokenLen) \cup ScopeHeaders

InitNormVars == /\ raw \in NormInputs
                /\ key = None
                /\ rekey = None

IdleNormVars == /\ raw = <<>>
                /\ key = None
                /\ rekey = None

Normalize ==
    /\ key = None
    /\ key' = Some(norm(raw))
    /\ UNCHANGED <<raw, rekey>>
    /\ UNCHANGED <<reportVars, loadVars, svcVars>>

Renormalize ==
    /\ key # None
    /\ rekey = None
    /\ rekey' = Some(norm(key.v))
    /\ UNCHANGED <<raw, key>>
    /\ UNCHANGED <<reportVars, loadVars, svcVars>>

(***************************************************************************)
(* Idle values of the other machines' variables.                           *)
(***************************************************************************)

IdleReportVars == /\ report = <<>>
                  /\ parsed = None

IdleLoadVars == /\ sheet = None
                /\ loaded = None
                /\ tableCache = None
                /\ tableOut = None

IdleSvcVars == /\ fs = None
               /\ cache = None
               /\ resp = None

InitNorm == InitNormVars /\ IdleReportVars /\ IdleLoadVars /\ IdleSvcVars

NextNorm == Normalize \/ Renormalize

SpecNorm == InitNorm /\ [][NextNorm]_vars

\* C2 (as stated): norm maps the three scope-1 header tokens to one key.
C2_SameKey ==
    (raw \in ScopeHeaders /\ key # None) => key.v = HeaderPlain

\* C2 (amended): the unit-annotated and the plain token normalize to the plain
\* token itself; the token with an inner space and a full-width colon
\* normalizes to the plain token followed by an ASCII colon (the colon is
\* replaced, not removed), so it contains the common key without equalling it.
C2_KeyUpToColon ==
    key # None =>
        /\ raw \in {HeaderUnit, HeaderPlain} => key.v = HeaderPlain
        /\ raw = HeaderSpaced =>
              /\ key.v = HeaderPlain \o <<":">>
              /\ Contains(key.v, HeaderPlain)

C2_Witness == raw = HeaderSpaced /\ key # None

\* C3 (as stated): norm is idempotent, norm(norm(x)) = norm(x).
C3_Idempotent == rekey # None => rekey.v = key.v

(***************************************************************************)
(* modules/lowcarbon.py : the text-report parser                           *)
(*                                                                         *)
(* A report text is a sequence of items.  An item is either one character  *)
(* (k = "ch") or one whole line of the report, classified by the regular   *)
(* expression of the module that matches it.  Every line item carries fw:  *)
(* TRUE when the line is written with full-width punctuation, which no     *)
(* regular expression of the module matches before _normalize_text has     *)
(* rewritten it.                                                           *)
(***************************************************************************)

\* A function's outcome: a returned value, or a raised HTTPException.
Ok(v)   == [k |-> "ok", v |-> v]
Http(n) == [k |-> "http", status |-> n]

Ch(c) == [k |-> "ch", c |-> c]

\* The text made of the characters of the string s.
Chars(s) == [i \in DOMAIN s |-> Ch(s[i])]

EmDash   == "U+2014"
EnDash   == "U+2013"
FwHyphen == "U+FF0D"
FwSlash  == "U+FF0F"

\* The replace chain of _normalize_text, on one character.
NormChar(c) ==
    CASE c = FwColon -> ":"
      [] c \in {EmDash, EnDash, FwHyphen} -> "-"
      [] c = FwSlash -> "/"
      [] OTHER -> c

NormItem(x) ==
    IF x.k = "ch" THEN Ch(NormChar(x.c)) ELSE [x EXCEPT !.fw = FALSE]

\* A slip: the text is searched as it was read.
_normalize_text_skipped(text) == text

\* _normalize_text(text)
_normalize_text(text) == [i \in DOMAIN text |-> NormItem(text[i])]

RECURSIVE Find(_, _, _)
\* str.find(pat, from): the lowest position >= from where pat occurs; 0 when
\* there is none (positions are 1-based, Python's -1 is 0 here).
Find(s, pat, from) ==
    IF from + Len(pat) - 1 > Len(s) THEN 0
    ELSE IF OccursAt(s, pat, from) THEN from
    ELSE Find(s, pat, from + 1)

\* A slip: the end marker is searched from the start of the start marker.
_section_end_from_start(text, start_key, end_key) ==
    LET t == _normalize_text(text)
        s == Find(t, start_key, 1)
    IN  IF s = 0 THEN Http(500)
        ELSE IF end_key # None /\ end_key.v # <<>>
        THEN LET e == Find(t, end_key.v, s)
             IN  IF e = 0 THEN Ok(DropTo(t, s)) ELSE Ok(SubSeq(t, s, e - 1))
        ELSE Ok(DropTo(t, s))

\* _section(text, start_key, end_key); end_key is None or Some(marker).
_section(text, start_key, end_key) ==
    LET t == _normalize_text(text)
        s == Find(t, start_key, 1)
    IN  IF s = 0 THEN Http(500)
        ELSE IF end_key # None /\ end_key.v # <<>>
        THEN LET e == Find(t, end_key.v, s + Len(start_key))
             IN  IF e = 0 THEN Ok(DropTo(t, s)) ELSE Ok(SubSeq(t, s, e - 1))
        ELSE Ok(DropTo(t, s))

(***************************************************************************)
(* SpecSection: _section on character texts with short markers.            *)
(***************************************************************************)

MaxTextLen == 4

TextAlphabet == {"a", "b", ":", FwColon}

CharTexts == {Chars(s) : s \in SeqsUpTo(TextAlphabet, MaxTextLen)}

StartKeys == {Chars(<<"a">>), Chars(<<"a", ":">>), Chars(<<"a", "a">>)}
EndKeys   == {None, Some(<<>>), Some(Chars(<<"a">>)), Some(Chars(<<":", "b">>))}

InitSection ==
    /\ report \in CharTexts
    /\ parsed = None
    /\ IdleNormVars /\ IdleLoadVars /\ IdleSvcVars

\* One call _section(report, start_key, end_key).
CallSection ==
    /\ parsed = None
    /\ \E start_key \in StartKeys, end_key \in EndKeys :
          parsed' = [fn |-> "_section", start |-> start_key, end |-> end_key,
                     out |-> _section(report, start_key, end_key)]
    /\ UNCHANGED report
    /\ UNCHANGED <<normVars, loadVars, svcVars>>

NextSection == CallSection

SpecSection == InitSection /\ [][NextSection]_vars

\* The report as the searches see it: character by character normalized.
Normalized(text) == [i \in DOMAIN text |-> NormItem(text[i])]

\* The positions where pat occurs in t at or after position from.
Occurrences(t, pat, from) ==
    {i \in from..(Len(t) + 1) : OccursAt(t, pat, i)}

Least(S) == CHOOSE x \in S : \A y \in S : x <= y

\* C8: _section fails with HTTP 500 exactly when the start marker does not
\* occur in the normalized text; otherwise it returns the slice from the first
\* occurrence of the start marker up to just before the first occurrence of
\* the end marker after the start marker, or to the end of the text when the
\* end marker is not given (None or empty) or does not occur there.
C8_SectionSlice ==
    parsed # None =>
        LET t      == Normalized(report)
            starts == Occurrences(t, parsed.start, 1)
        IN  /\ (parsed.out = Http(500)) <=> (starts = {})
            /\ starts # {} =>
                 LET s    == Least(starts)
                     ends == IF parsed.end = None \/ parsed.end.v = <<>>
                             THEN {}
                             ELSE Occurrences(t, parsed.end.v,
                                              s + Len(parsed.start))
                     stop == IF ends = {} THEN Len(t) ELSE Least(ends) - 1
                 IN  parsed.out = Ok([i \in 1..(stop - s + 1) |-> t[s + i - 1]])

\* The end marker also occurs inside the start marker's own span, and again
\* after it: the slice ends at the later occurrence.
C8_Witness ==
    /\ parsed # None
    /\ parsed.start = Chars(<<"a", "a">>)
    /\ parsed.end = Some(Chars(<<"a">>))
    /\ parsed.out.k = "ok"
    /\ Len(parsed.out.v) = 2
    /\ Len(report) > 2 + Find(Normalized(report), parsed.start, 1)

(***************************************************************************)
(* lowcarbon.py : numeric literals and the ranked-entry extraction         *)
(***************************************************************************)

Digits == {"0", "1", "2", "3", "4", "5", "6", "7", "8", "9"}

DigitValue(c) ==
    CASE c = "0" -> 0 [] c = "1" -> 1 [] c = "2" -> 2 [] c = "3" -> 3
      [] c = "4" -> 4 [] c = "5" -> 5 [] c = "6" -> 6 [] c = "7" -> 7
      [] c = "8" -> 8 [] c = "9" -> 9

RECURSIVE Decimal(_)
\* The value of a non-empty digit string.
Decimal(ds) ==
    IF Len(ds) = 1 THEN DigitValue(ds[1])
    ELSE 10 * Decimal(SubSeq(ds, 1, Len(ds) - 1)) + DigitValue(ds[Len(ds)])

\* _must_float(s): s is what the group [\d,]+ captured (digits and commas).
\* float() of the literal with the commas removed; a literal of commas only
\* leaves the empty string, float("") raises and that becomes HTTP 500.
_must_float(lit) ==
    LET ds == Strip(SelectSeq(lit, LAMBDA c : c # ","))
    IN  IF ds # <<>> /\ \A i \in DOMAIN ds : ds[i] \in Digits
        THEN Ok(Decimal(ds))
        ELSE Http(500)

\* The line items of the ranking section.
RankLine(rank, label, lit, fw) ==
    [k |-> "rank", fw |-> fw, rank |-> rank, label |-> label, lit |-> lit]
JunkLine(id) == [k |-> "junk", fw |-> FALSE, id |-> id]
Marker(name) == [k |-> "mark", fw |-> FALSE, name |-> name]

RankStart == <<Marker("rank-start")>>   \* the ranking section's title
RankEnd   == <<Marker("rank-end")>>     \* the title of the section after it

\* pattern.findall(sec): the ranked lines of sec, in text order.  A line
\* written with full-width punctuation does not match the ASCII template.
RankMatches(sec) == SelectSeq(sec, LAMBDA x : x.k = "rank" /\ ~x.fw)

RECURSIVE InsertByRank(_, _)
InsertByRank(sorted, row) ==
    IF sorted = <<>> THEN <<row>>
    ELSE IF sorted[Len(sorted)].rank <= row.rank THEN Append(sorted, row)
    ELSE Append(InsertByRank(SubSeq(sorted, 1, Len(sorted) - 1), row),
                sorted[Len(sorted)])

RECURSIVE SortByRank(_)
\* df.sort_values("rank") on a frame of a few rows: insertion sort, rows of
\* equal rank keep their order.
SortByRank(rows) ==
    IF rows = <<>> THEN <<>>
    ELSE InsertByRank(SortByRank(SubSeq(rows, 1, Len(rows) - 1)),
                      rows[Len(rows)])

TopN == 5

\* A variant that keeps every row.
HeadRows_all(rows, n) == rows

\* df.head(n)
HeadRows(rows, n) == SubSeq(rows, 1, IF Len(rows) < n THEN Len(rows) ELSE n)

\* The frame built from the matches: rank as int, emission through
\* _must_float.
RankRows(matches) ==
    [i \in DOMAIN matches |->
        [rank |-> matches[i].rank, process |-> matches[i].label,
         emission |-> _must_float(matches[i].lit)]]

\* What the parser does from the matches on.
Top5From(matches) ==
    LET rows == RankRows(matches)
    IN  IF \E i \in DOMAIN rows : rows[i].emission.k = "http"
        THEN Http(500)
        ELSE Ok(HeadRows(SortByRank(
                 [i \in DOMAIN rows |->
                     [rows[i] EXCEPT !.emission = rows[i].emission.v]]), TopN))

\* A slip: the emptiness check on the matches left out.
_parse_realtime_top5_unchecked(text) ==
    LET sec == _section(text, RankStart, Some(RankEnd))
    IN  IF sec.k = "http" THEN sec ELSE Top5From(RankMatches(sec.v))

\* A slip: the frame returned in match order.
_parse_realtime_top5_unsorted(text) ==
    LET sec == _section(text, RankStart, Some(RankEnd))
    IN  IF sec.k = "http" THEN sec
        ELSE IF RankMatches(sec.v) = <<>> THEN Http(500)
        ELSE LET rows == RankRows(RankMatches(sec.v))
             IN  IF \E i \in DOMAIN rows : rows[i].emission.k = "http"
                 THEN Http(500)
                 ELSE Ok(HeadRows([i \in DOMAIN rows |->
                          [rows[i] EXCEPT !.emission = rows[i].emission.v]],
                          TopN))

\* _parse_realtime_top5(text)
_parse_realtime_top5(text) ==
    LET sec == _section(text, RankStart, Some(RankEnd))
    IN  IF sec.k = "http" THEN sec
        ELSE IF RankMatches(sec.v) = <<>> THEN Http(500)
        ELSE Top5From(RankMatches(sec.v))

(***************************************************************************)
(* SpecTop5: _parse_realtime_top5 on reports of a few lines.               *)
(***************************************************************************)

MaxRankLines == 3
MaxRank == 3

\* Lines of the ranking section: well-formed ranked lines, one with a
\* grouping comma in full-width punctuation, one whose number is a lone
\* comma, and a line the template does not match.
RankVocab ==
    {RankLine(r, l, <<"7">>, FALSE) : r \in 1..MaxRank, l \in {"A", "B"}}
    \cup {RankLine(2, "C", <<"1", ",", "2">>, TRUE),
          RankLine(1, "D", <<",">>, FALSE),
          JunkLine(1)}

RankTails == {<<>>, RankEnd, RankEnd \o <<RankLine(1, "Z", <<"9">>, FALSE)>>}

RankTexts ==
    {RankStart \o body \o tail :
        body \in SeqsUpTo(RankVocab, MaxRankLines), tail \in RankTails}
    \cup SeqsUpTo(RankVocab, 1)

InitTop5 ==
    /\ report \in RankTexts
    /\ parsed = None
    /\ IdleNormVars /\ IdleLoadVars /\ IdleSvcVars

CallTop5 ==
    /\ parsed = None
    /\ parsed' = [fn |-> "_parse_realtime_top5",
                  out |-> _parse_realtime_top5(report)]
    /\ UNCHANGED report
    /\ UNCHANGED <<normVars, loadVars, svcVars>>

NextTop5 == CallTop5

SpecTop5 == InitTop5 /\ [][NextTop5]_vars

\* The positions of the report that lie in the section from the first start
\* marker up to the first end marker after it.
SectionSpan(text, start, end) ==
    LET starts == {i \in DOMAIN text : text[i] = start}
    IN  IF starts = {} THEN {}
        ELSE LET s    == Least(starts)
                 ends == {i \in DOMAIN text : i > s /\ text[i] = end}
             IN  {i \in DOMAIN text :
                    i >= s /\ (ends # {} => i < Least(ends))}

\* The positions of the ranked lines of the ranking section.
RankedAt(text) ==
    {i \in SectionSpan(text, RankStart[1], RankEnd[1]) : text[i].k = "rank"}

\* C5: ranked-entry extraction never returns an empty list: with no ranked
\* line in the ranking section the call fails with HTTP 500, and a returned
\* list holds at least one entry.
C5_NeverEmpty ==
    parsed # None =>
        /\ RankedAt(report) = {} => parsed.out = Http(500)
        /\ parsed.out.k = "ok" => Len(parsed.out.v) >= 1

\* The section is there (its start marker is found) and holds no ranked line.
C5_Witness ==
    /\ parsed # None
    /\ \E i \in DOMAIN report : report[i] = RankStart[1]
    /\ Len(report) > 1
    /\ RankedAt(report) = {}
    /\ parsed.out = Http(500)

\* The report with its ranked lines rearranged by f, a permutation of their
\* positions; every other line stays where it is.
Rearranged(text, f) ==
    [i \in DOMAIN text |-> IF i \in DOMAIN f THEN text[f[i]] ELSE text[i]]

Bijections(S) == {f \in [S -> S] : \A y \in S : \E x \in S : f[x] = y}

DistinctRanks(text) ==
    \A i, j \in RankedAt(text) : text[i].rank = text[j].rank => i = j

\* C6: the returned list is in ascending rank order, and for ranked lines of
\* distinct ranks every rearrangement of those lines in the report gives the
\* same outcome.
C6_OrderIndependent ==
    (parsed # None /\ DistinctRanks(report)) =>
        /\ parsed.out.k = "ok" =>
              \A i, j \in DOMAIN parsed.out.v :
                  i < j => parsed.out.v[i].rank < parsed.out.v[j].rank
        /\ \A f \in Bijections(RankedAt(report)) :
              _parse_realtime_top5(Rearranged(report, f)) = parsed.out

\* Three ranked lines, in the report in descending rank order, returned.
C6_Witness ==
    /\ parsed # None
    /\ parsed.out.k = "ok"
    /\ Len(parsed.out.v) = 3
    /\ DistinctRanks(report)
    /\ \E i, j \in RankedAt(report) : i < j /\ report[i].rank > report[j].rank

(***************************************************************************)
(* lowcarbon.py : strategy extraction                                      *)
(***************************************************************************)

\* "<strategy idx>:<title>", the header line of a strategy.
HeaderLine(idx, title, fw) ==
    [k |-> "hdr", fw |-> fw, idx |-> idx, title |-> title]
\* "<predicted reduction>: <lit> kgCO2e/<year>"
ReductionLine(lit, fw) == [k |-> "red", fw |-> fw, lit |-> lit]
\* What str.split leaves of a header line after its "<strategy idx>:" key.
HeaderRest(h) == [k |-> "rest", fw |-> FALSE, title |-> h.title]

StratStart == <<Marker("strategies-start")>>
StratEnd   == <<Marker("strategies-end")>>

StrategyIds == <<1, 2, 3>>

IsHeader(x, idx) == x.k = "hdr" /\ ~x.fw /\ x.idx = idx

\* sec.split(key of idx)[-1]: what follows the last header of idx, or the
\* whole of sec when idx has no header in it.
AfterLastHeader(sec, idx) ==
    LET at == {i \in DOMAIN sec : IsHeader(sec[i], idx)}
    IN  IF at = {} THEN sec
        ELSE LET p == CHOOSE i \in at : \A j \in at : j <= i
             IN  <<HeaderRest(sec[p])>> \o DropTo(sec, p + 1)

\* block.split(key of idx)[0]: what precedes the first header of idx, or
\* the whole block when idx has no header in it.
BeforeFirstHeader(block, idx) ==
    LET at == {i \in DOMAIN block : IsHeader(block[i], idx)}
    IN  IF at = {} THEN block ELSE SubSeq(block, 1, Least(at) - 1)

\* The block of strategy idx.
StrategyBlock(sec, idx) ==
    IF idx < 3
    THEN BeforeFirstHeader(AfterLastHeader(sec, idx), idx + 1)
    ELSE AfterLastHeader(sec, idx)

\* True iff the line of item x holds a character that is not whitespace.
NonBlank(x) == ~(x.k = "rest" /\ x.title = <<>>)

\* re.search(r"^\s*([^\n\r]+)", block): the first non-blank line of block.
TitleMatch(block) ==
    LET at == {i \in DOMAIN block : NonBlank(block[i])}
    IN  IF at = {} THEN None ELSE Some(block[Least(at)])

\* The search for the predicted-reduction line in block.
ReductionMatch(block) ==
    LET at == {i \in DOMAIN block : block[i].k = "red" /\ ~block[i].fw}
    IN  IF at = {} THEN None ELSE Some(block[Least(at)])

RECURSIVE StrategiesFrom(_, _, _)
\* The loop over idx from position n of StrategyIds on; out holds the entries
\* appended so far.
StrategiesFrom(sec, n, out) ==
    IF n > Len(StrategyIds) THEN Ok(out)
    ELSE LET idx     == StrategyIds[n]
             block   == StrategyBlock(sec, idx)
             title_m == TitleMatch(block)
             kg_m    == ReductionMatch(block)
         IN  IF title_m = None \/ kg_m = None THEN Http(500)
             ELSE LET kg == _must_float(kg_m.v.lit)
                  IN  IF kg.k = "http" THEN kg
                      ELSE StrategiesFrom(sec, n + 1,
                              Append(out, [code |-> idx, title |-> title_m.v,
                                           kgco2e_y |-> kg.v]))

\* _parse_strategies(text)
_parse_strategies(text) ==
    LET sec == _section(text, StratStart, Some(StratEnd))
    IN  IF sec.k = "http" THEN sec ELSE StrategiesFrom(sec.v, 1, <<>>)

(***************************************************************************)
(* SpecStrategies: _parse_strategies on reports of a few lines.            *)
(***************************************************************************)

MaxStrategyLines == 4

StrategyVocab ==
    {HeaderLine(1, <<"T", "1">>, FALSE), HeaderLine(2, <<"T", "2">>, FALSE),
     HeaderLine(3, <<"T", "3">>, FALSE)}
    \cup {ReductionLine(<<"1", "0">>, FALSE), ReductionLine(<<"2", "0">>, FALSE),
          ReductionLine(<<"3", "0">>, FALSE), HeaderLine(1, <<>>, FALSE)}

\* The report of the module's docstring: three strategies, each with its
\* header line and its predicted-reduction line.
FullStrategies ==
    <<HeaderLine(1, <<"T", "1">>, TRUE),  ReductionLine(<<"1", "0">>, TRUE),
      HeaderLine(2, <<"T", "2">>, FALSE), ReductionLine(<<"2", "0">>, FALSE),
      HeaderLine(3, <<"T", "3">>, FALSE), ReductionLine(<<"3", "0">>, FALSE)>>

StrategyTexts ==
    {StratStart \o body \o StratEnd :
        body \in SeqsUpTo(StrategyVocab, MaxStrategyLines) \cup {FullStrategies}}
    \cup {<<>>, StratEnd}

InitStrategies ==
    /\ report \in StrategyTexts
    /\ parsed = None
    /\ IdleNormVars /\ IdleLoadVars /\ IdleSvcVars

CallStrategies ==
    /\ parsed = None
    /\ parsed' = [fn |-> "_parse_strategies", out |-> _parse_strategies(report)]
    /\ UNCHANGED report
    /\ UNCHANGED <<normVars, loadVars, svcVars>>

NextStrategies == CallStrategies

SpecStrategies == InitStrategies /\ [][NextStrategies]_vars

\* The positions, in the strategy section of the report, of the header lines
\* of strategy idx.
HeadersAt(text, idx) ==
    {p \in SectionSpan(text, StratStart[1], StratEnd[1]) :
        text[p].k = "hdr" /\ text[p].idx = idx}

\* The position of the predicted-reduction line of the strategy whose header
\* is at p: the first one after p, before any other header line.  0 if none.
OwnReduction(text, p) ==
    LET span == SectionSpan(text, StratStart[1], StratEnd[1])
        at   == {q \in span : /\ q > p
                              /\ text[q].k = "red"
                              /\ \A r \in (p + 1)..(q - 1) : text[r].k # "hdr"}
    IN  IF at = {} THEN 0 ELSE Least(at)

\* C4 (as stated): strategy extraction is all-or-nothing: the call returns
\* the three entries in order, each with the title of its own header line
\* and its own predicted reduction, or fails with HTTP 500; it fails whenever
\* a strategy's header line or its predicted-reduction line is absent.
C4_AllOrNothing ==
    parsed # None =>
        /\ (\E idx \in 1..3 :
               \A p \in HeadersAt(report, idx) : OwnReduction(report, p) = 0)
           => parsed.out = Http(500)
        /\ parsed.out.k = "ok" =>
              /\ Len(parsed.out.v) = 3
              /\ \A idx \in 1..3 :
                    /\ parsed.out.v[idx].code = idx
                    /\ \E p \in HeadersAt(report, idx) :
                          /\ parsed.out.v[idx].title = HeaderRest(report[p])
                          /\ OwnReduction(report, p) # 0
                          /\ Ok(parsed.out.v[idx].kgco2e_y) =
                                _must_float(report[OwnReduction(report, p)].lit)
        /\ parsed.out.k = "http" => parsed.out = Http(500)

\* The complete report parses to its three strategies.
C4_FullParsed ==
    (parsed # None /\ report = StratStart \o FullStrategies \o StratEnd) =>
        parsed.out = Ok(<<[code |-> 1, title |-> HeaderRest(FullStrategies[1]),
                           kgco2e_y |-> 10],
                          [code |-> 2, title |-> HeaderRest(FullStrategies[3]),
                           kgco2e_y |-> 20],
                          [code |-> 3, title |-> HeaderRest(FullStrategies[5]),
                           kgco2e_y |-> 30]>>)

(***************************************************************************)
(* lowcarbon.py : evaluation extraction                                    *)
(***************************************************************************)

\* "<green power reduction>: <lit> kgCO2e"
GreenLine(lit, fw) == [k |-> "green", fw |-> fw, lit |-> lit]
\* "<total potential>: <lit> kgCO2e/<year>"
TotalLine(lit, fw) == [k |-> "total", fw |-> fw, lit |-> lit]
\* "<grade marker>: <val>", val a run of non-space characters
GradeLine(val, fw) == [k |-> "grade", fw |-> fw, val |-> val]

EvalStart == <<Marker("evaluation-start")>>
EvalEnd   == <<Marker("evaluation-end")>>

\* re.search of a line kind in sec: its first match, or None.
SearchLine(sec, kind) ==
    LET at == {i \in DOMAIN sec : sec[i].k = kind /\ ~sec[i].fw}
    IN  IF at = {} THEN None ELSE Some(sec[Least(at)])

\* re.findall of the grade pattern: the captured values, in text order.
GradeMatches(sec) ==
    LET lines == SelectSeq(sec, LAMBDA x : x.k = "grade" /\ ~x.fw)
    IN  [i \in DOMAIN lines |-> lines[i].val]

\* What the parser returns once the three fields are found.
EvaluationOf(green_kg, total_kg, grade) ==
    LET g == _must_float(green_kg.v.lit)
        t == _must_float(total_kg.v.lit)
    IN  IF g.k = "http" THEN g
        ELSE IF t.k = "http" THEN t
        ELSE Ok([green_kgco2e |-> g.v, total_kgco2e_per_year |-> t.v,
                 grade |-> grade])

\* A slip: the first grade taken, grades[0] for grades[-1].
_parse_evaluation_first_grade(text) ==
    LET sec == _section(text, EvalStart, Some(EvalEnd))
    IN  IF sec.k = "http" THEN sec
        ELSE LET green_kg == SearchLine(sec.v, "green")
                 total_kg == SearchLine(sec.v, "total")
                 grades   == GradeMatches(sec.v)
             IN  IF green_kg = None \/ total_kg = None \/ grades = <<>>
                 THEN Http(500)
                 ELSE EvaluationOf(green_kg, total_kg, grades[1])

\* _parse_evaluation(text)
_parse_evaluation(text) ==
    LET sec == _section(text, EvalStart, Some(EvalEnd))
    IN  IF sec.k = "http" THEN sec
        ELSE LET green_kg == SearchLine(sec.v, "green")
                 total_kg == SearchLine(sec.v, "total")
                 grades   == GradeMatches(sec.v)
             IN  IF green_kg = None \/ total_kg = None \/ grades = <<>>
                 THEN Http(500)
                 ELSE EvaluationOf(green_kg, total_kg, grades[Len(grades)])

(***************************************************************************)
(* SpecEvaluation: _parse_evaluation on reports of a few lines.            *)
(***************************************************************************)

MaxEvalLines == 4

EvalVocab ==
    {GreenLine(<<"3", "9", ",", "5">>, FALSE), GreenLine(<<",">>, FALSE),
     TotalLine(<<"7">>, TRUE),
     GradeLine("high", FALSE), GradeLine("mid", TRUE)}

EvalTails == {<<>>, EvalEnd, EvalEnd \o <<GradeLine("low", FALSE)>>}

EvalTexts ==
    {EvalStart \o body \o tail :
        body \in SeqsUpTo(EvalVocab, MaxEvalLines), tail \in EvalTails}
    \cup SeqsUpTo(EvalVocab, 1)

InitEvaluation ==
    /\ report \in EvalTexts
    /\ parsed = None
    /\ IdleNormVars /\ IdleLoadVars /\ IdleSvcVars

CallEvaluation ==
    /\ parsed = None
    /\ parsed' = [fn |-> "_parse_evaluation", out |-> _parse_evaluation(report)]
    /\ UNCHANGED report
    /\ UNCHANGED <<normVars, loadVars, svcVars>>

NextEvaluation == CallEvaluation

SpecEvaluation == InitEvaluation /\ [][NextEvaluation]_vars

\* The positions, in the evaluation section of the report, of the lines of
\* one kind.
EvalLinesAt(text, kind) ==
    {p \in SectionSpan(text, EvalStart[1], EvalEnd[1]) : text[p].k = kind}

Greatest(S) == CHOOSE x \in S : \A y \in S : y <= x

\* C7: with a green-power line, a total-potential line and at least one grade
\* line in the evaluation section, a returned grade is the value of the last
\* grade line of the section (and the call returns unless a captured number
\* is a lone run of commas); with any of the three absent the call fails with
\* HTTP 500.
C7_LastGradeWins ==
    parsed # None =>
        LET greens == EvalLinesAt(report, "green")
            totals == EvalLinesAt(report, "total")
            grades == EvalLinesAt(report, "grade")
        IN  IF greens = {} \/ totals = {} \/ grades = {}
            THEN parsed.out = Http(500)
            ELSE /\ parsed.out.k = "ok" =>
                       parsed.out.v.grade = report[Greatest(grades)].val
                 /\ (/\ _must_float(report[Least(greens)].lit).k = "ok"
                     /\ _must_float(report[Least(totals)].lit).k = "ok")
                    => parsed.out.k = "ok"
                 /\ parsed.out.k = "http" => parsed.out = Http(500)

\* Two grade lines of different values in the section, a third after its end
\* marker; the call returns.
C7_Witness ==
    /\ parsed # None
    /\ parsed.out.k = "ok"
    /\ \E p, q \in EvalLinesAt(report, "grade") :
          p < q /\ report[p].val # report[q].val
    /\ \E p \in DOMAIN report :
          report[p].k = "grade" /\ p \notin EvalLinesAt(report, "grade")

(***************************************************************************)
(* modules/common.py : header auto-detection and the table loader          *)
(*                                                                         *)
(* A cell is the text of its str() form, a row is a sequence of cells, a   *)
(* sheet is a sequence of rows of one width.  A frame is a record of its   *)
(* column labels and its rows.                                             *)
(***************************************************************************)

ChYue  == "U+6708"   \* "month" (yue)
ChPin  == "U+9891"   \* first character of "frequency" (pin)
ChLv   == "U+7387"   \* second character of "frequency" (lv)
ChShi  == "U+65F6"   \* first character of "time" (shi)
ChJian == "U+95F4"   \* second character of "time" (jian)
ChZong == "U+603B"   \* "total" (zong), as in a sheet's title

Raise(exc) == [k |-> "raise", exc |-> exc]

TIME_ALIASES ==
    << <<ChZhou, ChQi>>,
       <<"P", "e", "r", "i", "o", "d">>,
       <<"p", "e", "r", "i", "o", "d">>,
       <<ChPin, ChLv>>,
       <<ChShi, ChJian>>,
       <<"t", "i", "m", "e", "T", "y", "p", "e">>,
       <<"T", "i", "m", "e", "T", "y", "p", "e">> >>

S1_ALIASES ==
    << <<ChFan, ChWei, "1">>, <<"S", "c", "o", "p", "e", "1">>,
       <<"s", "c", "o", "p", "e", "1">>, <<"S", "1">>,
       <<"s", "c", "o", "p", "e", " ", "1">> >>

S2_ALIASES ==
    << <<ChFan, ChWei, "2">>, <<"S", "c", "o", "p", "e", "2">>,
       <<"s", "c", "o", "p", "e", "2">>, <<"S", "2">>,
       <<"s", "c", "o", "p", "e", " ", "2">> >>

S3_ALIASES ==
    << <<ChFan, ChWei, "3">>, <<"S", "c", "o", "p", "e", "3">>,
       <<"s", "c", "o", "p", "e", "3">>, <<"S", "3">>,
       <<"s", "c", "o", "p", "e", " ", "3">> >>

\* The three tokens line 27 looks for besides the period aliases.
ScopeTokens ==
    { <<ChFan, ChWei>>, <<"S", "c", "o", "p", "e">>,
      <<"s", "c", "o", "p", "e">> }

ScanRows == 50

RECURSIVE Str(_)
\* str(n) of a non-negative integer.
Str(n) ==
    LET d == CHOOSE c \in Digits : DigitValue(c) = n % 10
    IN  IF n < 10 THEN <<d>> ELSE Str(n \div 10) \o <<d>>

\* [norm(v) for v in row]
NormCells(row) == [i \in DOMAIN row |-> norm(row[i])]

\* [norm(k) for k in TIME_ALIASES]
TimeKeys == [i \in DOMAIN TIME_ALIASES |-> norm(TIME_ALIASES[i])]

\* The condition of line 27 on one row of the probe.
HeaderTest(row) ==
    LET vals   == NormCells(row)
        joined == Join(<<"|">>, vals)
    IN  /\ \E i \in DOMAIN TimeKeys : Contains(joined, TimeKeys[i])
        /\ \E t \in ScopeTokens : Contains(joined, t)

\* pd.read_excel(path, header=None): positional integer column labels.
ReadExcel(rows) ==
    [columns |-> [i \in 1..(IF rows = <<>> THEN 0 ELSE Len(rows[1])) |-> i - 1],
     rows    |-> rows]

RECURSIVE HeaderScan(_, _, _)
\* The loop of lines 24-31 from row ridx (1-based) of a probe of n rows, and
\* the fall-through of lines 32-34 once the probe is used up.
HeaderScan(df0, n, ridx) ==
    IF ridx > n
    THEN [columns |-> [i \in DOMAIN df0.columns |-> norm(Str(df0.columns[i]))],
          rows    |-> df0.rows]
    ELSE IF HeaderTest(df0.rows[ridx])
         THEN [columns |-> NormCells(df0.rows[ridx]),
               rows    |-> SubSeq(df0.rows, ridx + 1, Len(df0.rows))]
         ELSE HeaderScan(df0, n, ridx + 1)

Min(a, b) == IF a <= b THEN a ELSE b

\* A variant that keeps the header row as the first row of the table.
auto_header_keep_header(df0, scan_rows) ==
    LET n    == Min(scan_rows, Len(df0.rows))
        hits == {i \in 1..n : HeaderTest(df0.rows[i])}
    IN  IF hits = {} THEN HeaderScan(df0, n, 1)
        ELSE LET ridx == Least(hits)
             IN  [columns |-> NormCells(df0.rows[ridx]),
                  rows    |-> SubSeq(df0.rows, ridx, Len(df0.rows))]

\* auto_header(df0, scan_rows): probe = df0.head(scan_rows).
auto_header(df0, scan_rows) ==
    HeaderScan(df0, Min(scan_rows, Len(df0.rows)), 1)

\* A variant that raises when no row of the probe passes the test.
load_table_from_excel_strict(file) ==
    IF file = None THEN Raise("FileNotFoundError")
    ELSE LET df0 == ReadExcel(file.v)
             n   == Min(ScanRows, Len(df0.rows))
         IN  IF \E i \in 1..n : HeaderTest(df0.rows[i])
             THEN Ok(auto_header(df0, ScanRows))
             ELSE Raise("ValueError")

\* load_table_from_excel(filename): file is None when the path does not exist
\* and Some(rows) when it holds a sheet of these rows.
load_table_from_excel(file) ==
    IF file = None THEN Raise("FileNotFoundError")
    ELSE Ok(auto_header(ReadExcel(file.v), ScanRows))

RECURSIVE PickCol(_, _, _)
\* The inner loop of pick for one normalized alias a, from column j.
PickCol(cols_n, a, j) ==
    IF j > Len(cols_n) THEN None
    ELSE IF Contains(cols_n[j], a) THEN Some(cols_n[j])
    ELSE PickCol(cols_n, a, j + 1)

RECURSIVE PickFrom(_, _, _)
\* The outer loop of pick from alias i.
PickFrom(cols_n, aliases, i) ==
    IF i > Len(aliases) THEN None
    ELSE LET c == PickCol(cols_n, norm(aliases[i]), 1)
         IN  IF c # None THEN c ELSE PickFrom(cols_n, aliases, i + 1)

\* pick(cols, aliases): the first column, in alias order and then in column
\* order, whose normalized name contains the normalized alias.
pick(cols, aliases) == PickFrom(NormCells(cols), aliases, 1)

\* pick_scopes(df): the four column names, or ValueError.  A picked name
\* contains a non-empty alias, so it is never falsy.
pick_scopes(df) ==
    LET pc  == pick(df.columns, TIME_ALIASES)
        s1c == pick(df.columns, S1_ALIASES \o << <<ChFan, ChWei, "1">> >>)
        s2c == pick(df.columns, S2_ALIASES \o << <<ChFan, ChWei, "2">> >>)
        s3c == pick(df.columns, S3_ALIASES \o << <<ChFan, ChWei, "3">> >>)
    IN  IF pc = None \/ s1c = None \/ s2c = None \/ s3c = None
        THEN Raise("ValueError")
        ELSE Ok(<<pc.v, s1c.v, s2c.v, s3c.v>>)

\* standardize_period(x)
standardize_period(x) ==
    LET t == Strip(x)
    IN  CASE t \in {<<"1">>, <<ChRi>>, <<"d", "a", "y">>, <<"D", "a", "y">>}
               -> <<ChRi>>
          [] t \in {<<"2">>, <<ChZhou>>, <<"w", "e", "e", "k">>,
                    <<"W", "e", "e", "k">>}
               -> <<ChZhou>>
          [] t \in {<<"3">>, <<ChYue>>, <<"m", "o", "n", "t", "h">>,
                    <<"M", "o", "n", "t", "h">>}
               -> <<ChYue>>
          [] t \in {<<"4">>, <<ChNian>>, <<"y", "e", "a", "r">>,
                    <<"Y", "e", "a", "r">>}
               -> <<ChNian>>
          [] OTHER -> t

\* pd.to_numeric(cell, errors="coerce") then fillna(0.0), on the cells the
\* model uses: a run of digits is its value, anything else is not a number.
ToNumeric(cell) ==
    IF cell # <<>> /\ \A i \in DOMAIN cell : cell[i] \in Digits
    THEN Decimal(cell) ELSE 0

\* The positions of the columns labelled name, in column order.
ColumnsNamed(columns, name) ==
    SelectSeq([i \in DOMAIN columns |-> i], LAMBDA i : columns[i] = name)

\* Lines 46-59 of table(): load, pick the four columns, select and rename
\* them (a label carried by two columns selects both, and the renaming to
\* four names then raises ValueError), make the scopes numeric and
\* standardize the period.
BuildTable(file) ==
    LET r == load_table_from_excel(file)
    IN  IF r.k = "raise" THEN r
        ELSE LET ps == pick_scopes(r.v)
             IN  IF ps.k = "raise" THEN ps
                 ELSE LET sel == Concat([j \in 1..4 |->
                                     ColumnsNamed(r.v.columns, ps.v[j])])
                      IN  IF Len(sel) # 4 THEN Raise("ValueError")
                          ELSE Ok([i \in DOMAIN r.v.rows |->
                                 [period |-> standardize_period(r.v.rows[i][sel[1]]),
                                  s1 |-> ToNumeric(r.v.rows[i][sel[2]]),
                                  s2 |-> ToNumeric(r.v.rows[i][sel[3]]),
                                  s3 |-> ToNumeric(r.v.rows[i][sel[4]])]])

(***************************************************************************)
(* SpecLoad: the summary workbook is loaded by the loader and by table().  *)
(***************************************************************************)

MaxRows == 3

Blank == <<>>

\* A title row, as exports put above the header.
TitleRow == << <<ChZong>>, Blank, Blank, Blank >>

\* Header rows: native-language with a spaced token and a unit, English, and
\* one that lacks the scope-3 column.
HeaderRowCn ==
    << <<ChZhou, ChQi>>, HeaderSpaced, <<ChFan, ChWei, "2", "(", ChDun, ")">>,
       <<ChFan, ChWei, "3">> >>
HeaderRowEn ==
    << <<"P", "e", "r", "i", "o", "d">>, <<"S", "c", "o", "p", "e", "1">>,
       <<"S", "2">>, <<"s", "c", "o", "p", "e", " ", "3">> >>
HeaderRowShort ==
    << <<ChShi, ChJian>>, <<ChFan, ChWei, "1">>, <<ChFan, ChWei, "2">>, Blank >>

\* A row naming the period column only.
PeriodOnlyRow == << <<ChZhou, ChQi>>, Blank, Blank, Blank >>

\* Data rows: a year row, and a day row with a cell that is not a number.
YearRow == << <<"4">>, <<"1", "0", "0">>, <<"2", "0", "0">>, <<"3", "0", "0">> >>
DayRow  == << <<ChRi>>, <<"7">>, <<"x">>, Blank >>

\* A year row that spells the period in English.
YearRowEn == << <<"Y", "e", "a", "r">>, <<"1">>, <<"2">>, <<"3">> >>

RowVocab ==
    {TitleRow, HeaderRowCn, HeaderRowEn, HeaderRowShort, PeriodOnlyRow,
     YearRow, YearRowEn, DayRow}

\* The rows of the tables that lie under a long run of title rows.
DeepRowVocab == {HeaderRowCn, HeaderRowShort, YearRow}

\* Long runs of title rows: one row less than the probe, the whole probe.
Paddings == {ScanRows - 1, ScanRows}

\* Every table of up to MaxRows rows, and the tables of DeepRowVocab under
\* a long run of title rows.
Sheets ==
    SeqsUpTo(RowVocab, MaxRows)
      \cup { [i \in 1..n |-> TitleRow] \o t :
                n \in Paddings, t \in SeqsUpTo(DeepRowVocab, MaxRows) }

\* The workbook is absent or holds one of the sheets; nothing is loaded yet
\* and _TABLE is None.
InitLoad ==
    /\ sheet \in {None} \cup {Some(rows) : rows \in Sheets}
    /\ loaded = None
    /\ tableCache = None
    /\ tableOut = None
    /\ IdleNormVars /\ IdleReportVars /\ IdleSvcVars

\* One call load_table_from_excel("碳排总汇总.xlsx").
LoadTable ==
    /\ loaded = None
    /\ loaded' = load_table_from_excel(sheet)
    /\ UNCHANGED <<sheet, tableCache, tableOut>>
    /\ UNCHANGED <<normVars, reportVars, svcVars>>

\* One call table(): _TABLE is returned when set; otherwise the table is
\* built and, unless building raised, stored in _TABLE.
table ==
    /\ LET out == IF tableCache # None THEN Ok(tableCache.v)
                  ELSE BuildTable(sheet)
       IN  /\ tableOut' = out
           /\ tableCache' = IF tableCache = None /\ out.k = "ok"
                            THEN Some(out.v) ELSE tableCache
    /\ UNCHANGED <<sheet, loaded>>
    /\ UNCHANGED <<normVars, reportVars, svcVars>>

NextLoad == LoadTable \/ table

SpecLoad == InitLoad /\ [][NextLoad]_vars

\* Cell v contains the token t.
CellHas(v, t) ==
    \E i \in 1..(Len(v) - Len(t) + 1) : SubSeq(v, i, i + Len(t) - 1) = t

\* Some normalized cell of the row contains a period alias and some
\* normalized cell contains a scope token.
Qualifies(row) ==
    /\ \E c \in DOMAIN row, a \in DOMAIN TIME_ALIASES :
          CellHas(norm(row[c]), TIME_ALIASES[a])
    /\ \E c \in DOMAIN row, t \in ScopeTokens : CellHas(norm(row[c]), t)

\* The scanned rows of the sheet that qualify as a header row.
HeaderRows(rows) ==
    {i \in DOMAIN rows : i <= ScanRows /\ Qualifies(rows[i])}

C10_FirstHeaderWins ==
    /\ (loaded # None /\ sheet # None /\ loaded.k = "ok")
          => Len(loaded.v.rows) >= Len(sheet.v) - ScanRows
    /\ (loaded # None /\ sheet # None /\ HeaderRows(sheet.v) # {})
        => LET h == Least(HeaderRows(sheet.v))
           IN  /\ loaded.k = "ok"
               /\ Len(loaded.v.columns) = Len(sheet.v[h])
               /\ \A c \in DOMAIN sheet.v[h] :
                     loaded.v.columns[c] = norm(sheet.v[h][c])
               /\ Len(loaded.v.rows) = Len(sheet.v) - h
               /\ \A i \in DOMAIN loaded.v.rows :
                     loaded.v.rows[i] = sheet.v[h + i]

\* The header is the last row of the probe, title rows above it; a second
\* header row and a data row follow it.
C10_Witness ==
    /\ loaded # None /\ sheet # None
    /\ HeaderRows(sheet.v) = {ScanRows}
    /\ Len(sheet.v) = ScanRows + 2
    /\ Qualifies(sheet.v[ScanRows + 1])
    /\ loaded.k = "ok"
    /\ Len(loaded.v.rows) = 2

(***************************************************************************)
(* modules/common.py : the response formatter                              *)
(*                                                                         *)
(* A Python value is a record tagged by its type.  A float is held by its  *)
(* value in thousandths (milli); a dict is the sequence of its items in    *)
(* insertion order.                                                        *)
(***************************************************************************)

PyFloat(m)   == [k |-> "float", milli |-> m]
PyDecimal(m) == [k |-> "Decimal", milli |-> m]
PyInt(n)     == [k |-> "int", v |-> n]
PyStr(t)     == [k |-> "str", v |-> t]
PyBool(b)    == [k |-> "bool", v |-> b]
PyNone       == [k |-> "NoneType"]
PyDict(items)  == [k |-> "dict", items |-> items]
PyList(items)  == [k |-> "list", items |-> items]
PyTuple(items) == [k |-> "tuple", items |-> items]
Item(name, val) == [key |-> name, val |-> val]

\* A string that looks like a number, as scope_1 puts in its payload.
NumericString == "1.239"

\* The ties m/1000 (m ending in 5, no multiple of 125) among the floats of
\* the model whose nearest double lies below the tie: 1.005 and 2.675.
StoredBelow == {1005, 2675}

\* round(x, 2) of the non-negative double nearest to m/1000, in thousandths.
\* The double is rounded correctly: a tie that is stored exactly (a multiple
\* of 1/8) goes to the even hundredth, any other tie to the side on which
\* its double lies.
Round2(m) ==
    LET lo == m - (m % 10)
        hi == lo + 10
    IN  IF m % 10 < 5 THEN lo
        ELSE IF m % 10 > 5 THEN hi
        ELSE IF m % 125 = 0 THEN (IF (lo \div 10) % 2 = 0 THEN lo ELSE hi)
        ELSE IF m \in StoredBelow THEN lo ELSE hi

RECURSIVE format_float_2d_stringified(_)
\* A variant that also rounds strings that look like numbers.
format_float_2d_stringified(x) ==
    CASE x.k = "dict" ->
           PyDict([i \in DOMAIN x.items |->
                     Item(x.items[i].key,
                          format_float_2d_stringified(x.items[i].val))])
      [] x.k = "list" ->
           PyList([i \in DOMAIN x.items |->
                     format_float_2d_stringified(x.items[i])])
      [] x.k = "tuple" ->
           PyTuple([i \in DOMAIN x.items |->
                     format_float_2d_stringified(x.items[i])])
      [] x.k \in {"float", "Decimal"} -> PyFloat(Round2(x.milli))
      [] x.k = "str" /\ x.v = NumericString -> PyFloat(1240)
      [] OTHER -> x

RECURSIVE format_float_2d(_)
\* format_float_2d(x): dicts, lists and tuples are rebuilt around their
\* formatted members; a float, numpy float or Decimal becomes
\* round(float(x), 2); anything else is returned as it is.
format_float_2d(x) ==
    CASE x.k = "dict" ->
           PyDict([i \in DOMAIN x.items |->
                     Item(x.items[i].key, format_float_2d(x.items[i].val))])
      [] x.k = "list" ->
           PyList([i \in DOMAIN x.items |-> format_float_2d(x.items[i])])
      [] x.k = "tuple" ->
           PyTuple([i \in DOMAIN x.items |-> format_float_2d(x.items[i])])
      [] x.k \in {"float", "Decimal"} -> PyFloat(Round2(x.milli))
      [] OTHER -> x

\* {"code": 0, "msg": "", "data": data}
Envelope(data) ==
    PyDict(<< Item("code", PyInt(0)), Item("msg", PyStr("")),
              Item("data", data) >>)

(***************************************************************************)
(* The HTTP handlers that take a timeType.                                 *)
(*                                                                         *)
(* A workbook on disk is "missing", "unreadable" (it exists and loading it *)
(* raises), "sparse" (it loads, and lacks the rows the request asks for:   *)
(* the period row, the rows of the section) or "good" (it loads and holds  *)
(* every sheet, column and row the handlers read).  A cache slot is        *)
(* "empty" or holds the table that was loaded, "sparse" or "good".         *)
(* An exception no handler catches is answered with HTTP 500.              *)
(***************************************************************************)

MaxTimeType == 5
MaxQType == 4
MaxFaults == 1

\* The keys of TIME_MAP, PERIOD_MAP, TIME_COL_MAP and SHEET_MAP.
TIME_MAP == 1..4

\* The timeType values of the requests: below the keys, the first and the
\* last key, above the keys.
TimeTypes == {-1, 0, 1, 4, MaxTimeType}

\* The qtype values of the requests: a unit, and a value that is no unit.
QTypes == {1, MaxQType}

UnitsFile    == "fanwei2_shuichang_neiwai.xlsx"
OverviewFile == "tanpai_zonghuizong_han_qiangdu.xlsx"
SummaryFile  == "tanpai_zonghuizong.xlsx"
NetworkFile  == "guanwang_tanpai.xlsx"
Files == {UnitsFile, OverviewFile, SummaryFile, NetworkFile}

FileStates == {"missing", "unreadable", "sparse", "good"}

\* The outcome of a loader: what it returns or raises, and the cache slot
\* after it.
Loaded(out, slot) == [out |-> out, slot |-> slot]

\* TIME_MAP[t]: day, week, month, year.
PeriodLabel(t) == <<ChRi, ChZhou, ChYue, ChNian>>[t]

\* A response: a success carries its JSON body.
Response(endpoint, timeType, status, body) ==
    IF status = 200
    THEN [endpoint |-> endpoint, timeType |-> timeType, status |-> status,
          body |-> body]
    ELSE [endpoint |-> endpoint, timeType |-> timeType, status |-> status]

\* The good units workbook: the three units of the raw-water section
\* (1 = lifting pump house, 2 = intake pumping station, 3 = hypochlorite
\* room), each with its electricity, chemical and total emission and its
\* share of the section per period, in thousandths.
GoodUnitElec(u, t)  == 1000 * u * t + 111 * u
GoodUnitChem(u, t)  == 500 * t + 7 * u
GoodUnitTotal(u, t) == GoodUnitElec(u, t) + GoodUnitChem(u, t)
GoodUnitRatio(u, t) == <<33333, 33333, 33334>>[u]

UnitName(qtype) ==
    << "<U+539F><U+6C34><U+63D0><U+5347><U+6CF5><U+623F>",
       "<U+53D6><U+6C34><U+6CF5><U+7AD9>",
       "<U+6B21><U+6C2F><U+9178><U+94A0><U+95F4>" >>[qtype]

\* The body of rawwater_info (lines 126-141).
rawwater_info_body(t) ==
    format_float_2d(Envelope(PyDict(
      << Item("totalCarbonEmissions",
              PyFloat(GoodUnitTotal(1, t) + GoodUnitTotal(2, t)
                        + GoodUnitTotal(3, t))),
         Item("rawWaterLiftingPumpHouseCE", PyFloat(GoodUnitTotal(1, t))),
         Item("waterIntakePumpingStationCE", PyFloat(GoodUnitTotal(2, t))),
         Item("sodiumHypochloriteRoomCE", PyFloat(GoodUnitTotal(3, t))) >>)))

\* f"{name}<electricity emission>" and f"{name}<chemical emission>"
ElecSeriesName(qtype) ==
    << "<U+539F><U+6C34><U+63D0><U+5347><U+6CF5><U+623F><U+7535><U+8017><U+78B3><U+6392>",
       "<U+53D6><U+6C34><U+6CF5><U+7AD9><U+7535><U+8017><U+78B3><U+6392>",
       "<U+6B21><U+6C2F><U+9178><U+94A0><U+95F4><U+7535><U+8017><U+78B3><U+6392>" >>[qtype]
ChemSeriesName(qtype) ==
    << "<U+539F><U+6C34><U+63D0><U+5347><U+6CF5><U+623F><U+836F><U+8017><U+78B3><U+6392>",
       "<U+53D6><U+6C34><U+6CF5><U+7AD9><U+836F><U+8017><U+78B3><U+6392>",
       "<U+6B21><U+6C2F><U+9178><U+94A0><U+95F4><U+836F><U+8017><U+78B3><U+6392>" >>[qtype]

\* One series of the trend chart.
TrendSeries(name, val) ==
    PyDict(<< Item("name", PyStr(name)), Item("type", PyStr("line")),
              Item("data", PyList(<<PyFloat(val)>>)) >>)

\* The body of rawwater_trend (lines 172-200).
rawwater_trend_body(t, qtype) ==
    format_float_2d(Envelope(PyDict(
      << Item("id", PyStr("80")),
         Item("styleType", PyStr("0")),
         Item("customOption", PyDict(<<>>)),
         Item("xAxis", PyList(<< PyDict(
            << Item("type", PyStr("category")), Item("name", PyStr("")),
               Item("data", PyList(<<PyStr(PeriodLabel(t))>>)) >>) >>)),
         Item("yAxis", PyList(<< PyDict(
            << Item("name", PyStr("kgCO<U+2082>e")),
               Item("type", PyStr("value")) >>) >>)),
         Item("series", PyList(
            << TrendSeries("<U+603B><U+78B3><U+6392>",
                           GoodUnitTotal(qtype, t)),
               TrendSeries(ElecSeriesName(qtype), GoodUnitElec(qtype, t)),
               TrendSeries(ChemSeriesName(qtype), GoodUnitChem(qtype, t)) >>)),
         Item("colors", PyList(
            << PyStr("#4992ff"), PyStr("#7cffb2"), PyStr("#dd79ff"),
               PyStr("#fddd60"), PyStr("#ff6e76"), PyStr("#58d9f9"),
               PyStr("#05c091"), PyStr("#ff8a45"), PyStr("#8d48e3") >>)) >>)))

\* One row of a share table.
ShareRow(nameKey, name, valueKey, val) ==
    PyDict(<< Item(nameKey, PyStr(name)), Item(valueKey, PyFloat(val)) >>)

\* The body of rawwater_share (lines 218-232).
rawwater_share_body(t) ==
    LET structure == "<U+78B3><U+6392><U+7ED3><U+6784>"
        value     == "<U+6570><U+636E><U+503C>"
    IN  format_float_2d(Envelope(PyDict(
          << Item("dimensions", PyList(<<PyStr(structure), PyStr(value)>>)),
             Item("source", PyList(
                [u \in 1..3 |-> ShareRow(structure, UnitName(u), value,
                                         GoodUnitRatio(u, t))])),
             Item("dimensionsMapping",
                  PyList(<<PyStr("product"), PyStr(value)>>)) >>)))

\* process_outer: load_unit_table().  Any exception of read_excel, a missing
\* file included, becomes HTTP 500.
load_unit_table(slot, f) ==
    IF slot # "empty" THEN Loaded(Ok(slot), slot)
    ELSE IF f \in {"missing", "unreadable"} THEN Loaded(Http(500), slot)
    ELSE Loaded(Ok(f), f)

\* process_outer: _select_units().  No row of the section: HTTP 500.
_select_units(slot, f) ==
    LET l == load_unit_table(slot, f)
    IN  IF l.out.k = "ok" /\ l.out.v = "sparse"
        THEN Loaded(Http(500), l.slot) ELSE l

\* process_outer: _period_suffix(time_type)
_period_suffix(time_type) ==
    IF time_type \notin TIME_MAP THEN Http(400) ELSE Ok(time_type)

\* The status of rawwater_info once _select_units() has run: the lookup
\* TIME_COL_MAP[timeType] raises KeyError for a timeType that is not a key.
rawwater_info_status(timeType, sel) ==
    IF sel.out.k = "http" THEN sel.out.status
    ELSE IF timeType \notin TIME_MAP THEN 500
    ELSE 200

\* GET /api/process/outer/<raw water>/info
rawwater_info ==
    \E timeType \in TimeTypes :
       LET sel == _select_units(cache.unit, fs[UnitsFile])
       IN  /\ cache' = [cache EXCEPT !.unit = sel.slot]
           /\ resp' = Some(Response("rawwater_info", timeType,
                                     rawwater_info_status(timeType, sel),
                                     rawwater_info_body(timeType)))
           /\ UNCHANGED fs
           /\ UNCHANGED <<normVars, reportVars, loadVars>>

\* POST /api/process/outer/<raw water>/trend.  A good workbook holds rows of
\* all three units, so the 404 of an empty target does not arise.
rawwater_trend ==
    \E timeType \in TimeTypes, qtype \in QTypes :
       LET suffix == _period_suffix(timeType)
           sel    == _select_units(cache.unit, fs[UnitsFile])
           status == IF suffix.k = "http" THEN 400
                     ELSE IF sel.out.k = "http" THEN sel.out.status
                     ELSE IF qtype \notin 1..3 THEN 400
                     ELSE 200
       IN  /\ cache' = IF suffix.k = "http" THEN cache
                       ELSE [cache EXCEPT !.unit = sel.slot]
           /\ resp' = Some([qtype |-> qtype] @@
                            Response("rawwater_trend", timeType, status,
                                     rawwater_trend_body(timeType, qtype)))
           /\ UNCHANGED fs
           /\ UNCHANGED <<normVars, reportVars, loadVars>>

\* GET /api/process/outer/<raw water>/share
rawwater_share ==
    \E timeType \in TimeTypes :
       LET suffix == _period_suffix(timeType)
           sel    == _select_units(cache.unit, fs[UnitsFile])
           status == IF suffix.k = "http" THEN 400
                     ELSE IF sel.out.k = "http" THEN sel.out.status
                     ELSE 200
       IN  /\ cache' = IF suffix.k = "http" THEN cache
                       ELSE [cache EXCEPT !.unit = sel.slot]
           /\ resp' = Some(Response("rawwater_share", timeType, status,
                                     rawwater_share_body(timeType)))
           /\ UNCHANGED fs
           /\ UNCHANGED <<normVars, reportVars, loadVars>>

\* The good overview workbook: per period the total emission and the
\* expected reduction in whole kilograms, the treated water volume and the
\* intensity per cubic metre, in thousandths.
GoodTotalKg(t)       == 1234567000 + 1000000 * t
GoodWaterM3(t)       == 98765436 + t
GoodUnitIntensity(t) == 16 + t
GoodReductionKg(t)   == 4321000 + 1000 * t

\* x / 1000.0 of a float that holds a whole number.
Div1000(m) == m \div 1000

\* The body of build_overview (lines 86-110): the four floats as computed.
overview_body(t) ==
    Envelope(PyDict(
      << Item("monthTotalTp", PyFloat(Div1000(GoodTotalKg(t)))),
         Item("proWaterVolume", PyFloat(GoodWaterM3(t))),
         Item("proUnitWater", PyFloat(GoodUnitIntensity(t))),
         Item("emissionReduction", PyFloat(Div1000(GoodReductionKg(t)))) >>))

\* The good summary workbook: the emission of scope i in period t and its
\* share in percent, in thousandths; the year row holds 100, 200 and 300.
GoodScope(i, t)      == 25000 * i * t + 123 * (4 - t)
GoodScopeShare(i, t) == <<16667, 33333, 50000>>[i]

ScopeName(i) == <<"<U+8303><U+56F4>1", "<U+8303><U+56F4>2", "<U+8303><U+56F4>3">>[i]

\* The payload of build_payload of the scope summary (lines 77-89) for the
\* three scope values of the row.
SummaryPayload(v1, v2, v3) ==
    Envelope(PyDict(
      << Item("xAxis", PyList([i \in 1..3 |-> PyStr(ScopeName(i))])),
         Item("yAxis", PyList(<<PyStr("<U+76F4><U+63A5><U+6392><U+653E>"),
                                  PyStr("<U+95F4><U+63A5><U+6392><U+653E>")>>)),
         Item("data1", PyList(<<PyFloat(v1), PyFloat(0)>>)),
         Item("data2", PyList(<<PyFloat(0), PyFloat(v2)>>)),
         Item("data3", PyList(<<PyFloat(0), PyFloat(v3)>>)) >>))

\* The body of scope_summary on the good workbook, formatted at line 105.
scope_summary_body(t) ==
    format_float_2d(SummaryPayload(GoodScope(1, t), GoodScope(2, t),
                                   GoodScope(3, t)))

\* The body of scope_share (lines 57-76).
scope_share_body(t) ==
    format_float_2d(Envelope(PyDict(
      << Item("dimensions", PyList(<<PyStr("name"), PyStr("data")>>)),
         Item("source", PyList(
            [i \in 1..3 |-> ShareRow("name", ScopeName(i), "data",
                                     GoodScopeShare(i, t))])),
         Item("dimensionsMapping",
              PyList(<<PyStr("name"), PyStr("data")>>)) >>)))

\* SHEET_MAP[t]
SHEET_MAP(t) ==
    <<"Daily_PressurePoint", "Weekly_PressurePoint", "Monthly_PressurePoint",
      "Yearly_PressurePoint">>[t]

\* The good network workbook: on every sheet the latest record of two
\* pressure points.
GoodPointCarbon(n, t) == 12345 * n + t

\* The body of network_points_carbon (lines 95-115).
network_points_carbon_body(t) ==
    PyDict(
      << Item("timeType", PyInt(t)),
         Item("sheet", PyStr(SHEET_MAP(t))),
         Item("count", PyInt(2)),
         Item("data", PyList(
            [n \in 1..2 |->
               PyDict(<< Item("name", PyStr(<<"P1", "P2">>[n])),
                         Item("carbonKg", PyFloat(GoodPointCarbon(n, t))),
                         Item("monitorTime",
                              PyStr("2024-01-01 00:00:00")) >>)])) >>)

\* A variant of load_overview_table that reads the workbook again whenever
\* it can be read.
load_overview_table_refreshing(slot, f) ==
    IF f \in {"missing", "unreadable"}
    THEN (IF slot # "empty" THEN Loaded(Ok(slot), slot)
          ELSE Loaded(Http(500), slot))
    ELSE Loaded(Ok(f), f)

\* dashboard_overview: load_overview_table().  A missing workbook is HTTP 500
\* and an exception of read_excel is not caught.
load_overview_table(slot, f) ==
    IF slot # "empty" THEN Loaded(Ok(slot), slot)
    ELSE IF f = "missing" THEN Loaded(Http(500), slot)
    ELSE IF f = "unreadable" THEN Loaded(Http(500), slot)
    ELSE Loaded(Ok(f), f)

\* dashboard_overview: build_overview(period).  No row of the period: 404.
build_overview(slot, f) ==
    LET l == load_overview_table(slot, f)
    IN  IF l.out.k = "ok" /\ l.out.v = "sparse"
        THEN Loaded(Http(404), l.slot) ELSE l

\* POST /api/dashboard/overview
overview ==
    \E timeType \in TimeTypes :
       LET built  == build_overview(cache.overview, fs[OverviewFile])
           status == IF timeType \notin TIME_MAP THEN 400
                     ELSE IF built.out.k = "http" THEN built.out.status
                     ELSE 200
       IN  /\ cache' = IF timeType \notin TIME_MAP THEN cache
                       ELSE [cache EXCEPT !.overview = built.slot]
           /\ resp' = Some(Response("overview", timeType, status,
                                     overview_body(timeType)))
           /\ UNCHANGED fs
           /\ UNCHANGED <<normVars, reportVars, loadVars>>

\* dashboard_scope_summary: table() on the state of the workbook.  The
\* FileNotFoundError of the loader, an exception of read_excel and the
\* ValueError of pick_scopes are not caught; a table that was built is kept
\* in _TABLE.
SummaryTable(slot, f) ==
    IF slot # "empty" THEN Loaded(Ok(slot), slot)
    ELSE IF f \in {"missing", "unreadable"} THEN Loaded(Http(500), slot)
    ELSE Loaded(Ok(f), f)

\* dashboard_scope_summary: build_payload(period).  No row of the period: 404.
build_payload(slot, f) ==
    LET l == SummaryTable(slot, f)
    IN  IF l.out.k = "ok" /\ l.out.v = "sparse"
        THEN Loaded(Http(404), l.slot) ELSE l

\* POST /api/dashboard/scope_summary
scope_summary ==
    \E timeType \in TimeTypes :
       LET built  == build_payload(cache.summary, fs[SummaryFile])
           status == IF timeType \notin TIME_MAP THEN 400
                     ELSE IF built.out.k = "http" THEN built.out.status
                     ELSE 200
       IN  /\ cache' = IF timeType \notin TIME_MAP THEN cache
                       ELSE [cache EXCEPT !.summary = built.slot]
           /\ resp' = Some(Response("scope_summary", timeType, status,
                                     scope_summary_body(timeType)))
           /\ UNCHANGED fs
           /\ UNCHANGED <<normVars, reportVars, loadVars>>

\* dashboard_scope_share: load_table().  Any exception of read_excel, a
\* missing file included, becomes HTTP 500.
load_table(slot, f) ==
    IF slot # "empty" THEN Loaded(Ok(slot), slot)
    ELSE IF f \in {"missing", "unreadable"} THEN Loaded(Http(500), slot)
    ELSE Loaded(Ok(f), f)

\* POST /api/dashboard/scope_share: the table is loaded before the period is
\* resolved.
scope_share ==
    \E timeType \in TimeTypes :
       LET l      == load_table(cache.share, fs[SummaryFile])
           status == IF l.out.k = "http" THEN l.out.status
                     ELSE IF timeType \notin TIME_MAP THEN 400
                     ELSE IF l.out.v = "sparse" THEN 404
                     ELSE 200
       IN  /\ cache' = [cache EXCEPT !.share = l.slot]
           /\ resp' = Some(Response("scope_share", timeType, status,
                                     scope_share_body(timeType)))
           /\ UNCHANGED fs
           /\ UNCHANGED <<normVars, reportVars, loadVars>>

\* network_carbon_points: _load_sheet(time_type) on the slots of _CACHE.
\* The period is checked first, then the existence of the workbook, and only
\* then the cache.
_load_sheet(slots, f, time_type) ==
    IF time_type \notin TIME_MAP THEN Loaded(Http(400), slots)
    ELSE IF f = "missing" THEN Loaded(Http(404), slots)
    ELSE IF slots[time_type] # "empty"
         THEN Loaded(Ok(slots[time_type]), slots)
    ELSE IF f = "unreadable" THEN Loaded(Http(500), slots)
    ELSE Loaded(Ok(f), [slots EXCEPT ![time_type] = f])

\* POST /api/network/points-carbon.  A sheet without the point, CO2e_kg or
\* time column is HTTP 500 in _latest_per_point.
network_points_carbon ==
    \E timeType \in TimeTypes :
       LET l      == _load_sheet(cache.network, fs[NetworkFile], timeType)
           status == IF l.out.k = "http" THEN l.out.status
                     ELSE IF l.out.v = "sparse" THEN 500
                     ELSE 200
       IN  /\ cache' = [cache EXCEPT !.network = l.slot]
           /\ resp' = Some(Response("network_points_carbon", timeType, status,
                                     network_points_carbon_body(timeType)))
           /\ UNCHANGED fs
           /\ UNCHANGED <<normVars, reportVars, loadVars>>

\* The process has just started: every module-level cache is empty and no
\* request has been answered; at most MaxFaults workbooks are not good.
Init ==
    /\ fs \in {g \in [Files -> FileStates] :
                  Cardinality({f \in Files : g[f] # "good"}) <= MaxFaults}
    /\ cache = [unit |-> "empty", overview |-> "empty", summary |-> "empty",
                share |-> "empty", network |-> [t \in TIME_MAP |-> "empty"]]
    /\ resp = None
    /\ IdleNormVars /\ IdleReportVars /\ IdleLoadVars

Next ==
    \/ rawwater_info
    \/ rawwater_trend
    \/ rawwater_share
    \/ overview
    \/ scope_summary
    \/ scope_share
    \/ network_points_carbon

Spec == Init /\ [][Next]_vars

\* Every workbook is present and well-formed.
FilesGood == \A f \in Files : fs[f] = "good"

\* C1: with the data files present and well-formed, a request whose timeType
\* is an integer outside {1,2,3,4} is answered with HTTP 400 by every
\* endpoint that takes a timeType, never with a success or a 5xx response.
C1_InvalidTimeTypeIs400 ==
    (resp # None /\ FilesGood /\ resp.v.timeType \notin 1..4)
        => resp.v.status = 400

RECURSIVE AllRounded(_)
\* No float leaf of x has more than two decimal places.
AllRounded(x) ==
    CASE x.k = "dict" -> \A i \in DOMAIN x.items : AllRounded(x.items[i].val)
      [] x.k \in {"list", "tuple"} ->
           \A i \in DOMAIN x.items : AllRounded(x.items[i])
      [] x.k \in {"float", "Decimal"} -> x.milli % 10 = 0
      [] OTHER -> TRUE

\* C11: every success response has passed through the response formatter:
\* no float leaf of a success body has more than two decimal places.
C11_SuccessBodiesRounded ==
    (resp # None /\ resp.v.status = 200) => AllRounded(resp.v.body)

(***************************************************************************)
(* SpecFormat: format_float_2d applied to a response structure.            *)
(***************************************************************************)

MaxWidth == 2

FormatLeaves ==
    {PyFloat(1234), PyFloat(2675), PyFloat(125), PyDecimal(1236), PyInt(1),
     PyStr(NumericString), PyBool(TRUE), PyNone}

\* The dict whose i-th key is "k<i>" and whose values are vals.
DictOf(vals) ==
    PyDict([i \in DOMAIN vals |-> Item(<<"k1", "k2", "k3", "k4">>[i], vals[i])])

\* Dicts, lists and tuples of up to MaxWidth leaves.
FlatStructures ==
    UNION { {DictOf(vals), PyList(vals), PyTuple(vals)} :
               vals \in SeqsUpTo(FormatLeaves, MaxWidth) }

\* The flat structures inside an envelope, inside a list and inside a tuple.
NestedStructures ==
    {Envelope(d) : d \in FlatStructures}
      \cup {PyList(<<d, l>>) : d \in FlatStructures, l \in FormatLeaves}
      \cup {PyTuple(<<l, d>>) : d \in FlatStructures, l \in FormatLeaves}

FormatInputs == FormatLeaves \cup FlatStructures \cup NestedStructures

InitFormat ==
    /\ \E x \in FormatInputs : resp = [arg |-> x, out |-> None]
    /\ fs = None
    /\ cache = None
    /\ IdleNormVars /\ IdleReportVars /\ IdleLoadVars

\* One call format_float_2d(x).
FormatResponse ==
    /\ resp.out = None
    /\ resp' = [resp EXCEPT !.out = Some(format_float_2d(resp.arg))]
    /\ UNCHANGED <<fs, cache>>
    /\ UNCHANGED <<normVars, reportVars, loadVars>>

NextFormat == FormatResponse

SpecFormat == InitFormat /\ [][NextFormat]_vars

RECURSIVE Preserved(_, _)
\* y has the shape of x and every leaf of x that is no float, numpy float or
\* Decimal at the same place; where x has such a leaf, y has a float.
Preserved(x, y) ==
    IF x.k \in {"dict", "list", "tuple"}
    THEN /\ y.k = x.k
         /\ Len(y.items) = Len(x.items)
         /\ \A i \in DOMAIN x.items :
               IF x.k = "dict"
               THEN /\ y.items[i].key = x.items[i].key
                    /\ Preserved(x.items[i].val, y.items[i].val)
               ELSE Preserved(x.items[i], y.items[i])
    ELSE IF x.k \in {"float", "Decimal"} THEN y.k = "float"
    ELSE y = x

\* C12: format_float_2d keeps the shape of a nested structure of dicts, lists
\* and tuples (kinds, keys, lengths, order) and returns every leaf that is
\* not a floating-point number (str, int, bool, None) as it was.
C12_OnlyFloatsChange ==
    resp.out # None => Preserved(resp.arg, resp.out.v)

\* An envelope around a tuple of a numeric-looking string and a float: the
\* float is rounded, the string is not.
C12_Witness ==
    /\ resp.out # None
    /\ resp.arg = Envelope(PyTuple(<<PyStr(NumericString), PyFloat(2675)>>))
    /\ resp.out.v = Envelope(PyTuple(<<PyStr(NumericString), PyFloat(2670)>>))

(***************************************************************************)
(* SpecSummary: POST /api/dashboard/scope_summary on the sheets of         *)
(* SpecLoad.  (The scope_summary of Spec abstracts the workbook to its     *)
(* state; here the table is built from the sheet.)                         *)
(***************************************************************************)

\* The positions of the rows of tbl whose period is the label of t.
PeriodRows(tbl, t) == {i \in DOMAIN tbl : tbl[i].period = <<PeriodLabel(t)>>}

\* A variant that takes the last row of the period.
LastPeriodRow(tbl, t) == tbl[Greatest(PeriodRows(tbl, t))]

\* row.iloc[0] of tbl[tbl[period column] == period].
FirstPeriodRow(tbl, t) == tbl[Least(PeriodRows(tbl, t))]

\* float(row[k]) of a scope cell, in thousandths.
ScopeFloat(v) == 1000 * v

\* One request: the period is resolved (400), table() is called (an
\* exception it raises is answered with 500), the row of the period is
\* looked up (404) and the payload is formatted.
ScopeSummaryRequest ==
    LET out == IF tableCache # None THEN Ok(tableCache.v)
               ELSE BuildTable(sheet)
    IN  \E timeType \in TimeTypes :
           LET status == IF timeType \notin TIME_MAP THEN 400
                         ELSE IF out.k = "raise" THEN 500
                         ELSE IF PeriodRows(out.v, timeType) = {} THEN 404
                         ELSE 200
               r == FirstPeriodRow(out.v, timeType)
           IN  /\ resp' = Some(Response("scope_summary", timeType, status,
                           format_float_2d(SummaryPayload(ScopeFloat(r.s1),
                                           ScopeFloat(r.s2), ScopeFloat(r.s3)))))
               /\ IF timeType \notin TIME_MAP
                  THEN UNCHANGED <<tableCache, tableOut>>
                  ELSE /\ tableOut' = out
                       /\ tableCache' = IF tableCache = None /\ out.k = "ok"
                                        THEN Some(out.v) ELSE tableCache
               /\ UNCHANGED <<sheet, loaded, fs, cache>>
               /\ UNCHANGED <<normVars, reportVars>>

\* The sheets of the requests: a header row and up to MaxRows rows under
\* it, the empty sheet, and a sheet of a title row only.
SummarySheets ==
    { <<h>> \o t : h \in {HeaderRowCn, HeaderRowEn, HeaderRowShort},
                   t \in SeqsUpTo({YearRow, YearRowEn, DayRow, TitleRow},
                                  MaxRows) }
      \cup {<<>>, <<TitleRow>>}

\* The process has just started (_TABLE is None, nothing answered); the
\* workbook is absent or holds one of the sheets.
InitSummary ==
    /\ sheet \in {None} \cup {Some(rows) : rows \in SummarySheets}
    /\ loaded = None
    /\ tableCache = None
    /\ tableOut = None
    /\ IdleNormVars /\ IdleReportVars /\ IdleSvcVars

NextSummary == table \/ ScopeSummaryRequest

SpecSummary == InitSummary /\ [][NextSummary]_vars

\* The value of the field name of the dict d.
Field(d, name) ==
    d.items[CHOOSE i \in DOMAIN d.items : d.items[i].key = name].val

\* C13: a scope_summary request with a valid timeType that succeeds returns
\* the three scope values of the first table row of the requested period,
\* as data1 = [scope1, 0], data2 = [0, scope2], data3 = [0, scope3], inside
\* the envelope; a year row of 100, 200, 300 gives exactly these values.
C13_FirstPeriodRowValues ==
    (resp # None /\ resp.v.status = 200)
       => /\ resp.v.timeType \in 1..4
          /\ tableCache # None
          /\ \E i \in DOMAIN tableCache.v :
                /\ tableCache.v[i].period = <<PeriodLabel(resp.v.timeType)>>
                /\ \A j \in 1..(i - 1) :
                      tableCache.v[j].period # tableCache.v[i].period
                /\ Field(resp.v.body, "code") = PyInt(0)
                /\ LET d == Field(resp.v.body, "data")
                       r == tableCache.v[i]
                   IN  /\ Field(d, "data1")
                            = PyList(<<PyFloat(1000 * r.s1), PyFloat(0)>>)
                       /\ Field(d, "data2")
                            = PyList(<<PyFloat(0), PyFloat(1000 * r.s2)>>)
                       /\ Field(d, "data3")
                            = PyList(<<PyFloat(0), PyFloat(1000 * r.s3)>>)
                       /\ (resp.v.timeType = 4 /\ r.s1 = 100 /\ r.s2 = 200
                             /\ r.s3 = 300)
                            => /\ Field(d, "data1").items[1].milli = 100000
                               /\ Field(d, "data2").items[2].milli = 200000
                               /\ Field(d, "data3").items[2].milli = 300000

\* timeType = 4 on a table whose first year row holds 100, 200 and 300 and
\* is followed by another year row of other values.
C13_Witness ==
    /\ resp # None /\ resp.v.status = 200 /\ resp.v.timeType = 4
    /\ tableCache # None
    /\ Len(tableCache.v) = 2
    /\ tableCache.v[1] = [period |-> <<ChNian>>, s1 |-> 100, s2 |-> 200,
                          s3 |-> 300]
    /\ tableCache.v[2] = [period |-> <<ChNian>>, s1 |-> 1, s2 |-> 2, s3 |-> 3]
    /\ Field(Field(resp.v.body, "data"), "data1").items[1] = PyFloat(100000)

(***************************************************************************)
(* The segment info endpoint of the pre-treatment segment                  *)
(* (process_inner_<U+9884><U+5904><U+7406>.py).  The units workbook is a   *)
(* sheet of unit rows: a segment label, a unit name and one total cell per *)
(* period.  A cell is a float, a text or empty (NaN).                      *)
(***************************************************************************)

MaxUnitRows == 3

ChHe == "U+5408"   \* first character of "total" (he)
ChJi == "U+8BA1"   \* second character of "total" (ji)

SegCol  == <<"U+5DE5", "U+827A", "U+6BB5">>
UnitCol == <<"U+5DE5", "U+827A", "U+5355", "U+5143">>

\* f"{prefix}_{suff}"
ColumnName(prefix, suff) == prefix \o <<"_", suff>>

\* TIME_COL_MAP: timeType -> the name of the total column of the period.
TIME_COL_MAP ==
    << ColumnName(<<ChHe, ChJi>>, ChRi), ColumnName(<<ChHe, ChJi>>, ChZhou),
       ColumnName(<<ChHe, ChJi>>, ChYue), ColumnName(<<ChHe, ChJi>>, ChNian) >>

PretreatSegment == "<U+9884><U+5904><U+7406><U+6BB5>"
FilterSegment   == "<U+8FC7><U+6EE4><U+6BB5>"
WellUnit   == "<U+914D><U+6C34><U+4E95><U+548C><U+9884><U+81ED><U+6C27><U+63A5><U+89E6><U+6C60>"
DosingUnit == "<U+52A0><U+836F><U+95F4>"
GridUnit   == "<U+683C><U+6805>"
SandUnit   == "<U+7FFB><U+677F><U+7802><U+6EE4><U+6C60>"

NumCell(m)  == [k |-> "num", milli |-> m]
TextCell(s) == [k |-> "text", s |-> s]
NaNCell     == [k |-> "nan"]

\* pd.to_numeric(df[col], errors="coerce").fillna(0.0) on one cell, in
\* thousandths: a number is kept, a text of digits is parsed, any other
\* text and the empty cell become 0.0.
CoerceCell(c) ==
    CASE c.k = "num"  -> c.milli
      [] c.k = "text" -> 1000 * ToNumeric(c.s)
      [] OTHER        -> 0

\* Lines 98-102 of load_unit_table: the total columns the sheet has are
\* made numeric; the others are left as they are.
CoerceRow(columns, row) ==
    [row EXCEPT !.total =
        [t \in 1..4 |-> IF TIME_COL_MAP[t] \in columns
                        THEN NumCell(CoerceCell(row.total[t]))
                        ELSE row.total[t]]]

\* load_unit_table(): the cached table, or the sheet read (an exception of
\* read_excel -> 500), checked for the two key columns (500) and coerced;
\* the slot is assigned after the coercion.
pretreat_load_unit_table(slot, file) ==
    IF slot # None THEN Loaded(Ok(slot.v), slot)
    ELSE IF file = None THEN Loaded(Http(500), slot)
    ELSE IF ~ ({SegCol, UnitCol} \subseteq file.v.columns)
         THEN Loaded(Http(500), slot)
    ELSE LET df == [columns |-> file.v.columns,
                    rows |-> [i \in DOMAIN file.v.rows |->
                                 CoerceRow(file.v.columns, file.v.rows[i])]]
         IN  Loaded(Ok(df), Some(df))

\* A variant that keeps every row of the table.
pretreat_rows_unfiltered(df) == df.rows

\* df[df[SegCol] == PretreatSegment]
pretreat_rows(df) ==
    SelectSeq(df.rows, LAMBDA r : r.segment = PretreatSegment)

\* Series.sum() of the column of period t over rows.
RECURSIVE ColumnSum(_, _)
ColumnSum(rows, t) ==
    IF rows = <<>> THEN 0
    ELSE rows[1].total[t].milli + ColumnSum(Tail(rows), t)

\* row[col].iloc[0] of the rows of the unit, or 0.0 when there is none.
UnitValue(rows, unit, t) ==
    LET sel == SelectSeq(rows, LAMBDA r : r.unit = unit)
    IN  IF sel = <<>> THEN 0 ELSE sel[1].total[t].milli

\* pretreat_info(timeType): 400 for a timeType outside TIME_COL_MAP, then
\* the table is loaded (500), the rows of the segment are selected (404
\* when there is none), the column of the period is read (a sheet without
\* it raises KeyError, answered with 500) and the three values are
\* returned formatted.
pretreat_info ==
    \E timeType \in TimeTypes :
       LET l   == pretreat_load_unit_table(tableCache, sheet)
           pre == pretreat_rows(l.out.v)
           status ==
               IF timeType \notin TIME_MAP THEN 400
               ELSE IF l.out.k = "http" THEN l.out.status
               ELSE IF pre = <<>> THEN 404
               ELSE IF TIME_COL_MAP[timeType] \notin l.out.v.columns THEN 500
               ELSE 200
           body == format_float_2d(Envelope(PyDict(<<
                      Item("totalCarbonEmissions",
                           PyFloat(ColumnSum(pre, timeType))),
                      Item("distributionWellPreOzoneContactTankCE",
                           PyFloat(UnitValue(pre, WellUnit, timeType))),
                      Item("dosingRoomCE",
                           PyFloat(UnitValue(pre, DosingUnit, timeType))) >>)))
       IN  /\ resp' = Some(Response("pretreat_info", timeType, status, body))
           /\ tableCache' = IF timeType \in TIME_MAP THEN l.slot
                            ELSE tableCache
           /\ UNCHANGED <<sheet, loaded, tableOut, fs, cache>>
           /\ UNCHANGED <<normVars, reportVars>>

UnitRow(segment, unit, total) ==
    [segment |-> segment, unit |-> unit, total |-> total]

\* The rows of the sheets: the two named units of the segment, a third unit
\* of the segment, a unit of another segment, and a unit whose segment
\* label differs from the segment's by a trailing space.
UnitRowVocab ==
    { UnitRow(PretreatSegment, DosingUnit,
              <<NumCell(1234), TextCell(<<"n", "a">>), NaNCell,
                NumCell(120000)>>),
      UnitRow(PretreatSegment, WellUnit,
              <<NumCell(2002), NumCell(5000), TextCell(<<"7">>),
                NumCell(80000)>>),
      UnitRow(PretreatSegment, GridUnit,
              <<TextCell(<<"n", "a">>), NaNCell, NumCell(10), NumCell(10)>>),
      UnitRow(FilterSegment, SandUnit,
              <<NumCell(4000), NumCell(300), TextCell(<<"2">>),
                NumCell(50000)>>),
      UnitRow("<U+9884><U+5904><U+7406><U+6BB5> ", DosingUnit,
              <<NumCell(600), NumCell(600), NumCell(600), NumCell(600)>>) }

AllUnitColumns == {SegCol, UnitCol} \cup {TIME_COL_MAP[t] : t \in 1..4}

\* The column sets of the sheets: all columns, no year total, no unit name.
UnitColumnSets ==
    {AllUnitColumns, AllUnitColumns \ {TIME_COL_MAP[4]},
     AllUnitColumns \ {UnitCol}}

UnitSheets ==
    [columns : UnitColumnSets, rows : SeqsUpTo(UnitRowVocab, MaxUnitRows)]

\* The process has just started (_UNIT_TABLE is None); the workbook cannot
\* be read or holds one of the sheets.
InitSegment ==
    /\ sheet \in {None} \cup {Some(s) : s \in UnitSheets}
    /\ loaded = None
    /\ tableCache = None
    /\ tableOut = None
    /\ IdleNormVars /\ IdleReportVars /\ IdleSvcVars

NextSegment == pretreat_info

SpecSegment == InitSegment /\ [][NextSegment]_vars

\* The sum, over the rows of the sheet whose segment label is seg, of the
\* cell of period t, a cell that is no number counting 0.
RECURSIVE SegmentSum(_, _, _)
SegmentSum(rows, seg, t) ==
    IF rows = <<>> THEN 0
    ELSE (IF rows[1].segment = seg THEN CoerceCell(rows[1].total[t]) ELSE 0)
         + SegmentSum(Tail(rows), seg, t)

\* C14: the total a successful segment info response reports for period p
\* is the sum of the total column of p over exactly the rows of the sheet
\* whose segment label equals the endpoint's segment, cells that are not
\* numbers counting 0.0 and rows of other segments nothing (the sum goes
\* through the response formatter like every float of the body).
C14_SegmentTotalIsSum ==
    (resp # None /\ resp.v.endpoint = "pretreat_info" /\ resp.v.status = 200)
    => Field(Field(resp.v.body, "data"), "totalCarbonEmissions")
         = PyFloat(Round2(SegmentSum(sheet.v.rows, PretreatSegment,
                                     resp.v.timeType)))

\* Two rows of the segment with 120.0 and 80.0 and a row of another
\* segment: the year total is 200.0.
C14_Witness ==
    /\ resp # None /\ resp.v.endpoint = "pretreat_info"
    /\ resp.v.status = 200 /\ resp.v.timeType = 4
    /\ Len(sheet.v.rows) = 3
    /\ \E i, j, n \in DOMAIN sheet.v.rows :
          /\ sheet.v.rows[i].segment = PretreatSegment
          /\ sheet.v.rows[i].total[4] = NumCell(120000)
          /\ sheet.v.rows[j].segment = PretreatSegment
          /\ sheet.v.rows[j].total[4] = NumCell(80000)
          /\ sheet.v.rows[n].segment = FilterSegment
    /\ Field(Field(resp.v.body, "data"), "totalCarbonEmissions")
         = PyFloat(200000)

(***************************************************************************)
(* The period maps.  Every module resolves timeType with a dict of its     *)
(* own: to the period label, to the name of the column of the period, or   *)
(* to the name of the sheet of the period.  Each dict is written here as   *)
(* the sequence of its values for the keys 1, 2, 3, 4.                     *)
(***************************************************************************)

ChDian == "U+7535"   \* first character of "electricity use" (dian)
ChHao  == "U+8017"   \* second character of "electricity use" (hao)
ChZhan == "U+5360"   \* first character of "share" (zhan)
ChBi   == "U+6BD4"   \* second character of "share" (bi)

\* A variant of TIME_LABEL_MAP with the labels of week and month exchanged.
TIME_LABEL_MAP_swapped == <<ChRi, ChYue, ChZhou, ChNian>>

\* scope_scope_2.py: TIME_LABEL_MAP
TIME_LABEL_MAP == <<ChRi, ChZhou, ChYue, ChNian>>

\* scope_scope_2.py: ELEC_CARBON_COL_MAP and ELEC_KWH_COL_MAP
ELEC_CARBON_COL_MAP ==
    << ColumnName(<<ChDian, ChHao>>, ChRi),
       ColumnName(<<ChDian, ChHao>>, ChZhou),
       ColumnName(<<ChDian, ChHao>>, ChYue),
       ColumnName(<<ChDian, ChHao>>, ChNian) >>

ELEC_KWH_COL_MAP ==
    << ColumnName(<<"k", "W", "h">>, ChRi),
       ColumnName(<<"k", "W", "h">>, ChZhou),
       ColumnName(<<"k", "W", "h">>, ChYue),
       ColumnName(<<"k", "W", "h">>, ChNian) >>

\* process_section_share.py: col_map of _build_share_source
col_map ==
    << ColumnName(<<ChZhan, ChBi>>, ChRi), ColumnName(<<ChZhan, ChBi>>, ChZhou),
       ColumnName(<<ChZhan, ChBi>>, ChYue), ColumnName(<<ChZhan, ChBi>>, ChNian) >>

\* process_section_total.py: type_map
type_map ==
    << ColumnName(<<ChHe, ChJi>>, ChRi), ColumnName(<<ChHe, ChJi>>, ChZhou),
       ColumnName(<<ChHe, ChJi>>, ChYue), ColumnName(<<ChHe, ChJi>>, ChNian) >>

\* The dicts timeType -> period label, by module.
LabelMaps ==
    [ common               |-> <<ChRi, ChZhou, ChYue, ChNian>>,
      dashboard_overview   |-> <<ChRi, ChZhou, ChYue, ChNian>>,
      dashboard_scope_share |-> <<ChRi, ChZhou, ChYue, ChNian>>,
      process_inner_deep   |-> <<ChRi, ChZhou, ChYue, ChNian>>,
      process_inner_mixing |-> <<ChRi, ChZhou, ChYue, ChNian>>,
      process_inner_clear  |-> <<ChRi, ChZhou, ChYue, ChNian>>,
      process_inner_filter |-> <<ChRi, ChZhou, ChYue, ChNian>>,
      process_inner_pretreat |-> <<ChRi, ChZhou, ChYue, ChNian>>,
      process_outer_rawwater |-> <<ChRi, ChZhou, ChYue, ChNian>>,
      scope_scope_1        |-> <<ChRi, ChZhou, ChYue, ChNian>>,
      scope_scope_2        |-> TIME_LABEL_MAP,
      scope_scope_3        |-> <<ChRi, ChZhou, ChYue, ChNian>>,
      scope_scope_3_chem   |-> <<ChRi, ChZhou, ChYue, ChNian>>,
      scope_scope_3_sludge |-> <<ChRi, ChZhou, ChYue, ChNian>> ]

\* The dicts timeType -> column name, by module (TIME_COL_MAP of the five
\* inner segments and of the raw-water segment, and the four above).
ColumnMaps ==
    [ process_inner_deep     |-> TIME_COL_MAP,
      process_inner_mixing   |-> TIME_COL_MAP,
      process_inner_clear    |-> TIME_COL_MAP,
      process_inner_filter   |-> TIME_COL_MAP,
      process_inner_pretreat |-> TIME_COL_MAP,
      process_outer_rawwater |-> TIME_COL_MAP,
      scope_scope_2_carbon   |-> ELEC_CARBON_COL_MAP,
      scope_scope_2_kwh      |-> ELEC_KWH_COL_MAP,
      process_section_share  |-> col_map,
      process_section_total  |-> type_map ]

\* The dicts timeType -> sheet name.
SheetMaps ==
    [ network_carbon_points |-> [t \in 1..4 |-> SHEET_MAP(t)] ]

MapKinds == {"label", "column", "sheet"}

MapsOf(kind) ==
    CASE kind = "label"  -> LabelMaps
      [] kind = "column" -> ColumnMaps
      [] OTHER           -> SheetMaps

\* The timeType values of the requests: the keys, one below, one above.
PeriodCodes == 0..MaxTimeType

\* d.get(timeType), or the test "timeType in d" followed by d[timeType].
MapGet(d, timeType) ==
    IF timeType \in DOMAIN d THEN Some(d[timeType]) ELSE None

\* One resolution: a module looks timeType up in one of its dicts.
ResolvePeriod ==
    \E kind \in MapKinds :
       \E module \in DOMAIN MapsOf(kind) :
          \E timeType \in PeriodCodes :
             /\ resp' = Some([kind |-> kind, module |-> module,
                              timeType |-> timeType,
                              out |-> MapGet(MapsOf(kind)[module], timeType)])
             /\ UNCHANGED <<fs, cache>>
             /\ UNCHANGED <<normVars, reportVars, loadVars>>

InitPeriod ==
    IdleNormVars /\ IdleReportVars /\ IdleLoadVars /\ IdleSvcVars

NextPeriod == ResolvePeriod

SpecPeriod == InitPeriod /\ [][NextPeriod]_vars

\* The period a value of a dict stands for: a label is the period, a
\* column name ends with it, a sheet name begins with its English name.
PeriodOfValue(kind, v) ==
    CASE kind = "label"  -> v
      [] kind = "column" -> v[Len(v)]
      [] OTHER -> CASE v = "Daily_PressurePoint"   -> ChRi
                    [] v = "Weekly_PressurePoint"  -> ChZhou
                    [] v = "Monthly_PressurePoint" -> ChYue
                    [] v = "Yearly_PressurePoint"  -> ChNian
                    [] OTHER -> "?"

\* C15: in every module's period map each of the codes 1, 2, 3, 4 is mapped,
\* to day, week, month, year in that order (so no two codes share a label),
\* no other code is mapped, and the column name a module takes for a code
\* carries the same period as the label.
C15_PeriodMapsAgree ==
    resp # None =>
       IF resp.v.timeType \in 1..4
       THEN /\ resp.v.out # None
            /\ PeriodOfValue(resp.v.kind, resp.v.out.v)
                 = <<ChRi, ChZhou, ChYue, ChNian>>[resp.v.timeType]
       ELSE resp.v.out = None

\* Code 3 resolved to the month label by scope_2 and to a month column by
\* the section share.
C15_Witness ==
    /\ resp # None /\ resp.v.timeType = 3
    /\ \/ resp.v.module = "scope_scope_2" /\ resp.v.out = Some(ChYue)
       \/ /\ resp.v.module = "process_section_share"
          /\ resp.v.out = Some(<<ChZhan, ChBi, "_", ChYue>>)

(***************************************************************************)
(* Further properties of the HTTP handlers (specification Spec).           *)
(***************************************************************************)

\* The workbook an endpoint reads.
FileOf(endpoint) ==
    CASE endpoint \in {"rawwater_info", "rawwater_trend", "rawwater_share"}
            -> UnitsFile
      [] endpoint = "overview" -> OverviewFile
      [] endpoint = "scope_summary" -> SummaryFile
      [] endpoint = "scope_share" -> SummaryFile
      [] OTHER -> NetworkFile

\* The request that was answered is valid: its timeType is a period and its
\* qtype, if it has one, is a unit.
ValidRequest ==
    /\ resp.v.timeType \in TIME_MAP
    /\ "qtype" \in DOMAIN resp.v => resp.v.qtype \in 1..3

\* C16: a valid request that needs a workbook which does not exist is
\* answered with HTTP 404 (500 being kept for a workbook that exists and
\* cannot be read).
C16_MissingFileIs404 ==
    (resp # None /\ ValidRequest /\ fs[FileOf(resp.v.endpoint)] = "missing")
        => resp.v.status = 404

\* The keys of the dict d, in order.
Keys(d) == [i \in DOMAIN d.items |-> d.items[i].key]

\* C18: the success body of every endpoint that returns JSON is the
\* envelope: an object of code = 0, msg = "" and data.
C18_SuccessHasEnvelope ==
    (resp # None /\ resp.v.status = 200)
        => /\ resp.v.body.k = "dict"
           /\ Keys(resp.v.body) = <<"code", "msg", "data">>
           /\ Field(resp.v.body, "code") = PyInt(0)
           /\ Field(resp.v.body, "msg") = PyStr("")

(***************************************************************************)
(* SpecLookup: the period-keyed lookup endpoints.  overview, scope_summary *)
(* and scope_share are the handlers above; scope_1, scope_2, scope_3,      *)
(* scope_3/chem and scope_3/sludge follow.  As above a workbook is         *)
(* "missing", "unreadable", "sparse" (it loads and has no row of the       *)
(* period, no row of the sections) or "good".                              *)
(***************************************************************************)

Scope1File == "fanwei1_O3_yu_fanwei3_wuni_yunshu.xlsx"
Scope3File == "Scope3_han_fenxiang.xlsx"
LookupFiles == {OverviewFile, SummaryFile, UnitsFile, Scope1File, Scope3File}

\* The good workbooks of scope 1, 2 and 3, in thousandths.
GoodLeakage(t)     == 4320 + 10 * t
GoodScope2Total(t) == 9876542 + t
GoodElecCarbon(t)  == 765432 + t
GoodElecKwh(t)     == 1234562 + t
GoodChemCarbon(t)  == 2468 + 10 * t
GoodSludgeCarbon(t) == 1357 + 10 * t

\* scope_scope_1: load_table().  An exception of read_excel, a missing file
\* included, becomes HTTP 500.
scope1_load_table(slot, f) ==
    IF slot # "empty" THEN Loaded(Ok(slot), slot)
    ELSE IF f \in {"missing", "unreadable"} THEN Loaded(Http(500), slot)
    ELSE Loaded(Ok(f), f)

\* POST /api/scope/scope_1: the period is resolved (400), the table loaded
\* (500), the row of the period looked up (404).
scope_1 ==
    \E timeType \in TimeTypes :
       LET l      == scope1_load_table(cache.scope1, fs[Scope1File])
           status == IF timeType \notin TIME_MAP THEN 400
                     ELSE IF l.out.k = "http" THEN l.out.status
                     ELSE IF l.out.v = "sparse" THEN 404
                     ELSE 200
       IN  /\ cache' = IF timeType \notin TIME_MAP THEN cache
                       ELSE [cache EXCEPT !.scope1 = l.slot]
           /\ resp' = Some(Response("scope_1", timeType, status,
                 format_float_2d(Envelope(PyDict(<<
                    Item("leakageCarbonEmissions", PyStr(NumericString)),
                    Item("dosage", PyStr(NumericString)),
                    Item("leakageAmount", PyStr(NumericString)) >>)))))
           /\ UNCHANGED fs
           /\ UNCHANGED <<normVars, reportVars, loadVars>>

\* scope_scope_2: load_total_table()
load_total_table(slot, f) ==
    IF slot # "empty" THEN Loaded(Ok(slot), slot)
    ELSE IF f \in {"missing", "unreadable"} THEN Loaded(Http(500), slot)
    ELSE Loaded(Ok(f), f)

\* scope_scope_2: load_inner_section_table(), load_outer_section_table()
\* and load_elec_table(), three sheets of one workbook.
load_section_tables(slot, f) ==
    IF slot # "empty" THEN Loaded(Ok(slot), slot)
    ELSE IF f \in {"missing", "unreadable"} THEN Loaded(Http(500), slot)
    ELSE Loaded(Ok(f), f)

\* scope_scope_2: TOTAL_ELEC_KWH_YEAR, 3,272,523 kWh.  The model carries the
\* quantity in MWh, whose thousandths are the kWh.
TOTAL_ELEC_KWH_YEAR == 3272523

\* x / d to the nearest thousandth.
FloatDiv(x, d) == (2 * x + d) \div (2 * d)

\* scope_scope_2: _total_electricity_by_time(time_type)
_total_electricity_by_time(time_type) ==
    CASE time_type = 4 -> TOTAL_ELEC_KWH_YEAR
      [] time_type = 1 -> FloatDiv(TOTAL_ELEC_KWH_YEAR, 365)
      [] time_type = 2 -> FloatDiv(TOTAL_ELEC_KWH_YEAR, 52)
      [] time_type = 3 -> FloatDiv(TOTAL_ELEC_KWH_YEAR, 12)
      [] OTHER -> TOTAL_ELEC_KWH_YEAR

\* The body of scope_2: the scope-2 total is 0.0 when the total table has
\* no row of the period, and the section sums are 0.0 over no rows.
scope_2_body(t, total, sections) ==
    LET tot  == IF total = "good" THEN GoodScope2Total(t) ELSE 0
        ce   == IF sections = "good" THEN GoodElecCarbon(t) ELSE 0
        kwh  == IF sections = "good" THEN GoodElecKwh(t) ELSE 0
    IN  format_float_2d(Envelope(PyDict(<<
          Item("totalCarbonEmissions", PyFloat(tot)),
          Item("totalPlantElectricityConsumptionCarbonEmissions",
               PyFloat(5 * ce)),
          Item("totalElectricityConsumption",
               PyFloat(_total_electricity_by_time(t))),
          Item("offSiteElectricityConsumptionCarbonEmissions",
               PyFloat(ce + ce)),
          Item("qsdElectricityConsumption", PyFloat(kwh)),
          Item("qsdElectricityConsumptionCarbonEmissions", PyFloat(ce)),
          Item("ssdElectricityConsumption", PyFloat(kwh)),
          Item("ssdElectricityConsumptionCarbonEmissions", PyFloat(ce)) >>)))

\* POST /api/scope/scope_2: _validate_time_type (400), the total table
\* (500), its rows of the period (none: the total is 0.0), then the three
\* section tables (500).
scope_2 ==
    \E timeType \in TimeTypes :
       LET lt == load_total_table(cache.scope2.total, fs[SummaryFile])
           ls == load_section_tables(cache.scope2.sections, fs[UnitsFile])
           status == IF timeType \notin TIME_MAP THEN 400
                     ELSE IF lt.out.k = "http" THEN lt.out.status
                     ELSE IF ls.out.k = "http" THEN ls.out.status
                     ELSE 200
       IN  /\ cache' =
                IF timeType \notin TIME_MAP THEN cache
                ELSE [cache EXCEPT !.scope2 =
                        [total |-> lt.slot,
                         sections |-> IF lt.out.k = "http"
                                      THEN cache.scope2.sections
                                      ELSE ls.slot]]
           /\ resp' = Some(Response("scope_2", timeType, status,
                              scope_2_body(timeType, lt.out.v, ls.out.v)))
           /\ UNCHANGED fs
           /\ UNCHANGED <<normVars, reportVars, loadVars>>

\* scope_scope_3: load_scope3_table()
load_scope3_table(slot, f) ==
    IF slot # "empty" THEN Loaded(Ok(slot), slot)
    ELSE IF f \in {"missing", "unreadable"} THEN Loaded(Http(500), slot)
    ELSE Loaded(Ok(f), f)

\* POST /api/scope/scope_3: 400, then build_payload: 500, 404; the payload
\* is returned as built.
scope_3_total ==
    \E timeType \in TimeTypes :
       LET l      == load_scope3_table(cache.scope3, fs[Scope3File])
           status == IF timeType \notin TIME_MAP THEN 400
                     ELSE IF l.out.k = "http" THEN l.out.status
                     ELSE IF l.out.v = "sparse" THEN 404
                     ELSE 200
           chem   == GoodChemCarbon(timeType)
           sludge == GoodSludgeCarbon(timeType)
       IN  /\ cache' = IF timeType \notin TIME_MAP THEN cache
                       ELSE [cache EXCEPT !.scope3 = l.slot]
           /\ resp' = Some(Response("scope_3", timeType, status,
                 Envelope(PyDict(<<
                    Item("totalCarbonEmissions", PyFloat(chem + sludge)),
                    Item("carbonEmissionsChemicalAgents", PyFloat(chem)),
                    Item("carbonEmissionsSludgeTransportation",
                         PyFloat(sludge)),
                    Item("shareChemicalAgents", PyFloat(645)),
                    Item("shareSludgeTransportation", PyFloat(355)),
                    Item("chart", PyDict(<<
                       Item("dimensions",
                            PyList(<<PyStr("name"), PyStr("data")>>)),
                       Item("source", PyList(<<
                          ShareRow("name", "<U+836F><U+5242><U+78B3><U+6392>",
                                   "data", chem),
                          ShareRow("name", "<U+6C61><U+6CE5><U+8FD0><U+8F93>",
                                   "data", sludge) >>)) >>)) >>))))
           /\ UNCHANGED fs
           /\ UNCHANGED <<normVars, reportVars, loadVars>>

\* scope_scope_3_chem: load_chem_table()
load_chem_table(slot, f) ==
    IF slot # "empty" THEN Loaded(Ok(slot), slot)
    ELSE IF f \in {"missing", "unreadable"} THEN Loaded(Http(500), slot)
    ELSE Loaded(Ok(f), f)

\* POST /api/scope/scope_3/chem: 400, then build_payload: 500, 404; the
\* payload (four agents, dose and emission of each) is returned as built.
scope_3_chem ==
    \E timeType \in TimeTypes :
       LET l      == load_chem_table(cache.chem, fs[Scope3File])
           status == IF timeType \notin TIME_MAP THEN 400
                     ELSE IF l.out.k = "http" THEN l.out.status
                     ELSE IF l.out.v = "sparse" THEN 404
                     ELSE 200
           carbon == GoodChemCarbon(timeType)
       IN  /\ cache' = IF timeType \notin TIME_MAP THEN cache
                       ELSE [cache EXCEPT !.chem = l.slot]
           /\ resp' = Some(Response("scope_3_chem", timeType, status,
                 Envelope(PyDict(<<
                    Item("totalCarbonEmissionsChemicalAgents",
                         PyFloat(4 * carbon)),
                    Item("chart", PyDict(<<
                       Item("xAxis", PyList(<<
                          PyStr("<U+6295><U+52A0><U+91CF>"),
                          PyStr("<U+78B3><U+6392><U+653E><U+91CF>")>>)),
                       Item("yAxis", PyList(<<
                          PyStr("O3"), PyStr("<U+6B21><U+6C2F><U+9178><U+94A0>"),
                          PyStr("PAC"), PyStr("PAM")>>)),
                       Item("data1",
                            PyList([i \in 1..4 |-> PyFloat(1000 * i)])),
                       Item("data2",
                            PyList([i \in 1..4 |-> PyFloat(carbon)])) >>)) >>))))
           /\ UNCHANGED fs
           /\ UNCHANGED <<normVars, reportVars, loadVars>>

\* scope_scope_3_sludge: load_sludge_table()
load_sludge_table(slot, f) ==
    IF slot # "empty" THEN Loaded(Ok(slot), slot)
    ELSE IF f \in {"missing", "unreadable"} THEN Loaded(Http(500), slot)
    ELSE Loaded(Ok(f), f)

\* POST /api/scope/scope_3/sludge: 400, then build_payload: 500, 404; every
\* value of the payload is a formatted string.
scope_3_sludge ==
    \E timeType \in TimeTypes :
       LET l      == load_sludge_table(cache.sludge, fs[Scope1File])
           status == IF timeType \notin TIME_MAP THEN 400
                     ELSE IF l.out.k = "http" THEN l.out.status
                     ELSE IF l.out.v = "sparse" THEN 404
                     ELSE 200
       IN  /\ cache' = IF timeType \notin TIME_MAP THEN cache
                       ELSE [cache EXCEPT !.sludge = l.slot]
           /\ resp' = Some(Response("scope_3_sludge", timeType, status,
                 format_float_2d(Envelope(PyDict(<<
                    Item("carbonEmissionsSludgeTransportation",
                         PyStr("1.357000")),
                    Item("chart", PyList(<<
                       PyList(<<PyStr("<div><U+6C61><U+6CE5><U+91CF></div>"),
                                PyStr("12.50 <U+5428>")>>),
                       PyList(<<PyStr("<div><U+542B><U+56FA><U+7387></div>"),
                                PyStr("20.00%")>>),
                       PyList(<<PyStr("<div><U+8FD0><U+8F93><U+8DDD><U+79BB></div>"),
                                PyStr("35.00 km")>>) >>)) >>)))))
           /\ UNCHANGED fs
           /\ UNCHANGED <<normVars, reportVars, loadVars>>

\* The process has just started: every cache is empty; at most MaxFaults
\* workbooks are not good.
InitLookup ==
    /\ fs \in {g \in [LookupFiles -> FileStates] :
                  Cardinality({f \in LookupFiles : g[f] # "good"}) <= MaxFaults}
    /\ cache = [overview |-> "empty", summary |-> "empty", share |-> "empty",
                scope1 |-> "empty",
                scope2 |-> [total |-> "empty", sections |-> "empty"],
                scope3 |-> "empty", chem |-> "empty", sludge |-> "empty"]
    /\ resp = None
    /\ IdleNormVars /\ IdleReportVars /\ IdleLoadVars

NextLookup ==
    \/ overview
    \/ scope_summary
    \/ scope_share
    \/ scope_1
    \/ scope_2
    \/ scope_3_total
    \/ scope_3_chem
    \/ scope_3_sludge

SpecLookup == InitLookup /\ [][NextLookup]_vars

\* The workbook whose table a lookup endpoint searches for the period row.
PeriodFileOf(endpoint) ==
    CASE endpoint = "overview" -> OverviewFile
      [] endpoint \in {"scope_summary", "scope_share", "scope_2"} -> SummaryFile
      [] endpoint \in {"scope_1", "scope_3_sludge"} -> Scope1File
      [] OTHER -> Scope3File

\* C17: on every period-keyed lookup endpoint a request with a valid
\* timeType whose period label matches no row of the table that was loaded
\* is answered with HTTP 404.
C17_NoPeriodRowIs404 ==
    (resp # None /\ resp.v.timeType \in TIME_MAP
       /\ fs[PeriodFileOf(resp.v.endpoint)] = "sparse")
        => resp.v.status = 404

(***************************************************************************)
(* SpecCache: the load-once caches of scope_summary, overview and the      *)
(* network points while the workbooks change on disk between requests.     *)
(***************************************************************************)

CacheFiles == {OverviewFile, SummaryFile, NetworkFile}

\* Between two requests a workbook is replaced, removed or damaged.
FileChange ==
    \E f \in CacheFiles, s \in FileStates :
       /\ fs[f] # s
       /\ fs' = [fs EXCEPT ![f] = s]
       /\ UNCHANGED <<cache, resp>>
       /\ UNCHANGED <<normVars, reportVars, loadVars>>

InitCache ==
    /\ fs \in {g \in [CacheFiles -> FileStates] :
                  Cardinality({f \in CacheFiles : g[f] # "good"}) <= MaxFaults}
    /\ cache = [unit |-> "empty", overview |-> "empty", summary |-> "empty",
                share |-> "empty", network |-> [t \in TIME_MAP |-> "empty"]]
    /\ resp = None
    /\ IdleNormVars /\ IdleReportVars /\ IdleLoadVars

NextCache ==
    \/ overview
    \/ scope_summary
    \/ network_points_carbon
    \/ FileChange

SpecCache == InitCache /\ [][NextCache]_vars

\* The status of a valid request served from a table: a table without the
\* row of the period is 404 (500 for the network sheet without its
\* columns), a good table is 200.
StatusFrom(endpoint, tbl) ==
    IF tbl = "good" THEN 200
    ELSE IF endpoint = "network_points_carbon" THEN 500 ELSE 404

\* The request answered by this step was served from the slot, which was
\* populated: its status is that of the table of the slot, whatever the
\* workbook has become.  (network_points_carbon tests that the workbook
\* exists before it looks at _CACHE.)
ServedFromSlot ==
    (resp' # resp /\ resp'.v.timeType \in TIME_MAP) =>
       CASE resp'.v.endpoint = "overview" ->
              cache.overview # "empty"
                 => resp'.v.status = StatusFrom("overview", cache.overview)
         [] resp'.v.endpoint = "scope_summary" ->
              cache.summary # "empty"
                 => resp'.v.status = StatusFrom("scope_summary", cache.summary)
         [] OTHER ->
              (cache.network[resp'.v.timeType] # "empty"
                  /\ fs[NetworkFile] # "missing")
                 => resp'.v.status =
                       StatusFrom("network_points_carbon",
                                  cache.network[resp'.v.timeType])

\* A populated slot keeps its table.
SlotsKept ==
    /\ cache.overview # "empty" => cache'.overview = cache.overview
    /\ cache.summary # "empty" => cache'.summary = cache.summary
    /\ \A t \in TIME_MAP :
          cache.network[t] # "empty" => cache'.network[t] = cache.network[t]

\* C19: once a cache slot holds a table, no step (no request on any
\* endpoint, whatever its outcome, and no change of the workbook) empties
\* the slot or replaces its table, and a request on the slot is answered
\* from the table without reading the workbook again.
C19_LoadOnce == [][SlotsKept /\ ServedFromSlot]_vars

\* A request answered from a populated slot after its workbook was damaged,
\* and a network slot that outlived the replacement of its workbook.
C19_Witness ==
    /\ cache.overview = "good" /\ fs[OverviewFile] = "unreadable"
    /\ resp # None /\ resp.v.endpoint = "overview" /\ resp.v.status = 200
    /\ cache.network[1] = "good" /\ fs[NetworkFile] = "sparse"

(***************************************************************************)
(* SpecRace: concurrent first access to one cache slot.  The handlers are  *)
(* plain functions, which the server runs on a pool of threads; threads    *)
(* interleave between the statements of load_unit_table                    *)
(* (process_inner_<U+6DF1><U+5EA6><U+5904><U+7406><U+6BB5>.py).  The       *)
(* frame a thread reads is its own until the statement _UNIT_TABLE = df.   *)
(* The thread i keeps its position and its locals in cache[i] and its      *)
(* answer in resp[i]; tableCache is _UNIT_TABLE and sheet the workbook.    *)
(***************************************************************************)

MaxThreads == 2

Threads == 1..MaxThreads

DeepSegment == "<U+6DF1><U+5EA6><U+5904><U+7406><U+6BB5>"
OzoneWorkshopUnit == <<"U+81ED", "U+6C27", "U+8F66", "U+95F4">>
MainOzoneUnit  == <<"U+4E3B", "U+81ED", "U+6C27", "U+63A5", "U+89E6", "U+6C60">>
OzoneDissolveUnit == <<"U+81ED", "U+6C27", "U+6EB6", "U+89E3", "/", "U+6DF7",
                       "U+5408">>
OzoneContactTank == <<"U+81ED", "U+6C27", "U+63A5", "U+89E6", "U+6C60">>
FlipFilterUnit == <<"U+7FFB", "U+677F", "U+70AD", "U+6EE4", "U+6C60">>
SodiumRoomUnit == <<"U+6B21", "U+6C2F", "U+9178", "U+94A0", "U+6295",
                    "U+52A0", "U+95F4">>

\* A variant that publishes the frame as it was read.
PublishedFrame_raw(read, coerced) == read

\* The frame load_unit_table assigns to _UNIT_TABLE: df after the coercion
\* loop.
PublishedFrame(read, coerced) == coerced

\* The coercion loop of load_unit_table on a frame.
CoerceFrame(df) ==
    [columns |-> df.columns,
     rows |-> [i \in DOMAIN df.rows |-> CoerceRow(df.columns, df.rows[i])]]

\* The rows whose unit name contains pat.
UnitsContaining(rows, pat) ==
    SelectSeq(rows, LAMBDA r : Contains(r.unit, pat))

\* deep_info once the table is at hand: _select_deep_units (no row of the
\* segment: 500), the column of the period (absent: KeyError, 500), the
\* five sums.
deep_info_from(df, timeType) ==
    LET deep == SelectSeq(df.rows, LAMBDA r : r.segment = DeepSegment)
        Sum(rows) == ColumnSum(rows, timeType)
    IN  IF deep = <<>> THEN Response("deep_info", timeType, 500, PyNone)
        ELSE IF TIME_COL_MAP[timeType] \notin df.columns
             THEN Response("deep_info", timeType, 500, PyNone)
        ELSE Response("deep_info", timeType, 200,
               format_float_2d(Envelope(PyDict(<<
                 Item("totalCarbonEmissions", PyFloat(Sum(deep))),
                 Item("ozoneWorkshopCE",
                      PyFloat(Sum(SelectSeq(deep, LAMBDA r :
                                     \/ Contains(r.unit, OzoneWorkshopUnit)
                                     \/ Contains(r.unit, OzoneDissolveUnit))))),
                 Item("mainOzoneContactTankCE",
                      PyFloat(Sum(UnitsContaining(deep, OzoneContactTank)))),
                 Item("flipPlateCarbonFilterCE",
                      PyFloat(Sum(SelectSeq(deep,
                                   LAMBDA r : r.unit = FlipFilterUnit)))),
                 Item("sodiumHypochloriteDosingRoomCE",
                      PyFloat(Sum(SelectSeq(deep,
                                   LAMBDA r : r.unit = SodiumRoomUnit)))) >>))))

\* The locals of a thread.
Local(pc, timeType, df, reads) ==
    [pc |-> pc, timeType |-> timeType, df |-> df, reads |-> reads]

Goto(i, pc) == cache' = [cache EXCEPT ![i].pc = pc]

Answer(i, r) ==
    /\ resp' = [resp EXCEPT ![i] = Some(r)]
    /\ cache' = [cache EXCEPT ![i].pc = "done"]

\* deep_info is entered: a timeType outside TIME_COL_MAP is answered 400.
DeepEnter(i) ==
    /\ cache[i].pc = "idle"
    /\ \E timeType \in TimeTypes :
          IF timeType \notin TIME_MAP
          THEN /\ resp' = [resp EXCEPT ![i] =
                             Some(Response("deep_info", timeType, 400, PyNone))]
               /\ cache' = [cache EXCEPT ![i] =
                              Local("done", timeType, None, 0)]
          ELSE /\ cache' = [cache EXCEPT ![i] =
                              Local("check", timeType, None, 0)]
               /\ UNCHANGED resp
    /\ UNCHANGED <<sheet, tableCache>>

\* if _UNIT_TABLE is not None: return _UNIT_TABLE
DeepCheck(i) ==
    /\ cache[i].pc = "check"
    /\ IF tableCache # None
       THEN cache' = [cache EXCEPT ![i].pc = "select", ![i].df = tableCache]
       ELSE Goto(i, "read")
    /\ UNCHANGED <<sheet, tableCache, resp>>

\* df = pd.read_excel(...): an exception is answered 500.
DeepRead(i) ==
    /\ cache[i].pc = "read"
    /\ IF sheet = None
       THEN Answer(i, Response("deep_info", cache[i].timeType, 500, PyNone))
       ELSE /\ cache' = [cache EXCEPT ![i].pc = "validate", ![i].df = sheet,
                                      ![i].reads = @ + 1]
            /\ UNCHANGED resp
    /\ UNCHANGED <<sheet, tableCache>>

\* The test of the two key columns: 500 when one is absent.
DeepValidate(i) ==
    /\ cache[i].pc = "validate"
    /\ IF {SegCol, UnitCol} \subseteq cache[i].df.v.columns
       THEN Goto(i, "coerce") /\ UNCHANGED resp
       ELSE Answer(i, Response("deep_info", cache[i].timeType, 500, PyNone))
    /\ UNCHANGED <<sheet, tableCache>>

\* The coercion loop, on the thread's own frame; _UNIT_TABLE = df follows.
DeepCoerce(i) ==
    /\ cache[i].pc = "coerce"
    /\ cache' = [cache EXCEPT
                   ![i].pc = "assign",
                   ![i].df = Some(CoerceFrame(cache[i].df.v))]
    /\ tableCache' = tableCache
    /\ UNCHANGED <<sheet, resp>>

\* _UNIT_TABLE = df; return df
DeepAssign(i) ==
    /\ cache[i].pc = "assign"
    /\ tableCache' = Some(PublishedFrame(sheet.v, cache[i].df.v))
    /\ Goto(i, "select")
    /\ UNCHANGED <<sheet, resp>>

\* The rest of deep_info, on the frame load_unit_table returned.
DeepRespond(i) ==
    /\ cache[i].pc = "select"
    /\ Answer(i, deep_info_from(cache[i].df.v, cache[i].timeType))
    /\ UNCHANGED <<sheet, tableCache>>

\* The rows of the workbook: two units of the segment, one of them with a
\* text and an empty cell, and a unit of another segment.
RaceRowVocab ==
    { UnitRow(DeepSegment, FlipFilterUnit,
              <<TextCell(<<"n", "a">>), NumCell(1234), NaNCell,
                NumCell(120000)>>),
      UnitRow(DeepSegment, MainOzoneUnit,
              <<TextCell(<<"7">>), NumCell(5000), NaNCell,
                NumCell(80000)>>),
      UnitRow(FilterSegment, SodiumRoomUnit,
              <<NumCell(4000), NumCell(300), NumCell(20), NumCell(50000)>>) }

RaceSheets ==
    [columns : {AllUnitColumns, AllUnitColumns \ {UnitCol},
                AllUnitColumns \ {TIME_COL_MAP[4]}},
     rows : SeqsUpTo(RaceRowVocab, 2)]

\* The process has just started: _UNIT_TABLE is None and no thread has
\* taken a request.
InitRace ==
    /\ sheet \in {None} \cup {Some(s) : s \in RaceSheets}
    /\ tableCache = None
    /\ cache = [i \in Threads |-> Local("idle", 0, None, 0)]
    /\ resp = [i \in Threads |-> None]
    /\ loaded = None /\ tableOut = None /\ fs = None
    /\ IdleNormVars /\ IdleReportVars

NextRace ==
    \E i \in Threads :
       /\ \/ DeepEnter(i)
          \/ DeepCheck(i)
          \/ DeepRead(i)
          \/ DeepValidate(i)
          \/ DeepCoerce(i)
          \/ DeepAssign(i)
          \/ DeepRespond(i)
       /\ UNCHANGED <<loaded, tableOut, fs>>
       /\ UNCHANGED <<normVars, reportVars>>

SpecRace == InitRace /\ [][NextRace]_vars

\* deep_info run alone from an empty slot: the answer and the slot after.
deep_info_alone(file, timeType) ==
    IF timeType \notin TIME_MAP
    THEN [resp |-> Response("deep_info", timeType, 400, PyNone), slot |-> None]
    ELSE IF file = None \/ ~ ({SegCol, UnitCol} \subseteq file.v.columns)
    THEN [resp |-> Response("deep_info", timeType, 500, PyNone), slot |-> None]
    ELSE [resp |-> deep_info_from(CoerceFrame(file.v), timeType),
          slot |-> Some(CoerceFrame(file.v))]

\* C20: when several requests perform the first access to the empty slot
\* concurrently, in every interleaving each answer is the one the request
\* gets when it runs alone (it is computed from a fully loaded, validated
\* and coerced table), and the slot is empty or holds the table one
\* sequential load produces; only the number of loads differs.
C20_RaceIsBenign ==
    /\ tableCache # None =>
          /\ sheet # None
          /\ tableCache = deep_info_alone(sheet, 4).slot
    /\ \A i \in Threads :
          resp[i] # None =>
             resp[i].v = deep_info_alone(sheet, resp[i].v.timeType).resp

\* Two requests have both read the workbook, both were answered 200 from
\* a table whose text cell "7" was coerced to 7.0, and the slot is populated.
C20_Witness ==
    /\ tableCache # None
    /\ \A i \in {1, 2} :
          /\ cache[i].pc = "done" /\ cache[i].reads = 1
          /\ resp[i] # None /\ resp[i].v.status = 200
          /\ resp[i].v.timeType = 1
    /\ \E n \in DOMAIN sheet.v.rows :
          /\ sheet.v.rows[n].segment = DeepSegment
          /\ sheet.v.rows[n].total[1] = TextCell(<<"7">>)
    /\ Field(Field(resp[1].v.body, "data"), "totalCarbonEmissions")
         = PyFloat(7000)

(***************************************************************************)
(* SpecTop5Long: _parse_realtime_top5 on ranking sections of more than     *)
(* five ranked lines.  The label of a line is its position in the section, *)
(* so that lines of equal rank are told apart.                             *)
(***************************************************************************)

MaxLongLines == 6
MaxLongRank == 3

\* The line at position i with rank r and a well-formed number.
LongLine(r, i) == RankLine(r, i, <<"7">>, FALSE)

\* Sections of five to MaxLongLines lines with ranks up to MaxLongRank.
TiedBodies ==
    UNION { { [i \in 1..n |-> LongLine(f[i], i)] : f \in [1..n -> 1..MaxLongRank] }
            : n \in 5..MaxLongLines }

\* The ranks 1 .. MaxLongLines + 1 rotated by k, ascending or descending.
Rotated(k, down) ==
    LET n == MaxLongLines + 1
    IN  [i \in 1..n |->
           LET r == ((i + k) % n) + 1
           IN  LongLine(IF down THEN n + 1 - r ELSE r, i)]

DistinctBodies == { Rotated(k, down) : k \in 0..MaxLongLines, down \in BOOLEAN }

\* The same sections with the number of the line of the greatest rank, or
\* of rank 1, written as a lone comma.
CommaBodies ==
    { [i \in DOMAIN b |->
         IF b[i].rank = r THEN [b[i] EXCEPT !.lit = <<",">>] ELSE b[i]] :
      b \in DistinctBodies, r \in {1, MaxLongLines + 1} }

LongTexts ==
    { RankStart \o body \o RankEnd :
         body \in TiedBodies \cup DistinctBodies \cup CommaBodies }

InitTop5Long ==
    /\ report \in LongTexts
    /\ parsed = None
    /\ IdleNormVars /\ IdleLoadVars /\ IdleSvcVars

NextTop5Long == CallTop5

SpecTop5Long == InitTop5Long /\ [][NextTop5Long]_vars

\* The ranked lines of the ranking section that the template matches.
MatchedAt(text) == {i \in RankedAt(text) : ~text[i].fw}

\* The number of every matched line parses.
NumbersParse(text) ==
    \A i \in MatchedAt(text) : _must_float(text[i].lit).k = "ok"

\* out is five of the matched lines of text, distinct, in ascending rank
\* order, and no line left out has a smaller rank than a line of out.  (A
\* line is known by its label, its position in the section.)
FiveSmallest(text, out) ==
    LET kept == {i \in MatchedAt(text) :
                    \E a \in DOMAIN out : /\ out[a].process = text[i].label
                                          /\ out[a].rank = text[i].rank}
    IN  /\ Len(out) = TopN
        /\ Cardinality(kept) = TopN
        /\ \A a, b \in DOMAIN out :
               a # b => out[a].process # out[b].process
        /\ \A i \in MatchedAt(text) \ kept :
               \A a \in DOMAIN out : text[i].rank >= out[a].rank
        /\ \A a, b \in DOMAIN out : a < b => out[a].rank <= out[b].rank

RECURSIVE UnitSum(_, _, _, _)
UnitSum(rows, seg, unit, t) ==
    IF rows = <<>> THEN 0
    ELSE (IF rows[1].segment = seg /\ rows[1].unit = unit
          THEN CoerceCell(rows[1].total[t]) ELSE 0)
         + UnitSum(Tail(rows), seg, unit, t)

\* C24: in a successful pre-treatment info response for period p the value
\* of the distribution well is the total of the column of p over all rows
\* of the segment with that unit, the value of the dosing room likewise,
\* each 0.0 when there is no such row.
C24_UnitValuesAreTotals ==
    (resp # None /\ resp.v.endpoint = "pretreat_info" /\ resp.v.status = 200)
    => LET data == Field(resp.v.body, "data")
           t    == resp.v.timeType
       IN  /\ Field(data, "distributionWellPreOzoneContactTankCE")
                = PyFloat(Round2(UnitSum(sheet.v.rows, PretreatSegment,
                                         WellUnit, t)))
           /\ Field(data, "dosingRoomCE")
                = PyFloat(Round2(UnitSum(sheet.v.rows, PretreatSegment,
                                         DosingUnit, t)))

(***************************************************************************)
(* SpecDeep: the info endpoint of the deep-treatment segment, one request  *)
(* at a time, on tables whose unit names vary.                             *)
(***************************************************************************)

\* GET .../info of the deep-treatment segment: load_unit_table on the slot,
\* then deep_info on the table.
deep_info ==
    \E timeType \in TimeTypes :
       LET alone == deep_info_alone(sheet, timeType)
       IN  /\ resp' = Some(IF tableCache # None /\ timeType \in TIME_MAP
                           THEN deep_info_from(tableCache.v, timeType)
                           ELSE alone.resp)
           /\ tableCache' = IF tableCache # None THEN tableCache
                            ELSE alone.slot
           /\ UNCHANGED <<sheet, loaded, tableOut, fs, cache>>
           /\ UNCHANGED <<normVars, reportVars>>

\* The rows of the workbook: the ozone workshop, the main ozone contact
\* tank, the carbon filter, and a unit named after both the workshop and
\* the contact tank.
OzoneRowVocab ==
    { UnitRow(DeepSegment, OzoneWorkshopUnit,
              <<NumCell(1000), NumCell(2000), NumCell(3000), NumCell(4000)>>),
      UnitRow(DeepSegment, MainOzoneUnit,
              <<NumCell(500), NumCell(600), NumCell(700), NumCell(800)>>),
      UnitRow(DeepSegment, FlipFilterUnit,
              <<NumCell(70), NumCell(80), NumCell(90), NumCell(100)>>),
      UnitRow(DeepSegment, OzoneWorkshopUnit \o OzoneContactTank,
              <<NumCell(10), NumCell(20), NumCell(30), NumCell(40)>>) }

DeepSheets ==
    [columns : {AllUnitColumns, AllUnitColumns \ {UnitCol}},
     rows : SeqsUpTo(OzoneRowVocab, MaxUnitRows)]

InitDeep ==
    /\ sheet \in {None} \cup {Some(s) : s \in DeepSheets}
    /\ loaded = None
    /\ tableCache = None
    /\ tableOut = None
    /\ IdleNormVars /\ IdleReportVars /\ IdleSvcVars

NextDeep == deep_info

SpecDeep == InitDeep /\ [][NextDeep]_vars

\* C29: no row of the segment is counted in two sub-unit buckets, whatever
\* the unit names: on non-negative data the sub-unit values of a successful
\* info response sum to at most its totalCarbonEmissions.
C29_BucketsWithinTotal ==
    (resp # None /\ resp.v.endpoint = "deep_info" /\ resp.v.status = 200)
    => LET data == Field(resp.v.body, "data")
       IN  Field(data, "ozoneWorkshopCE").milli
             + Field(data, "mainOzoneContactTankCE").milli
             + Field(data, "flipPlateCarbonFilterCE").milli
             + Field(data, "sodiumHypochloriteDosingRoomCE").milli
           <= Field(data, "totalCarbonEmissions").milli

(***************************************************************************)
(* Further properties of Spec and SpecCache: the order of period           *)
(* resolution, file test and cache test in the handlers.                   *)
(***************************************************************************)

\* The request answered by this step carried a timeType that is no key of
\* the period map.
InvalidPeriodStep == resp' # None /\ resp'.v.timeType \notin TIME_MAP

\* C23: in every handler the period is resolved before any table is loaded:
\* a request with an invalid timeType is answered with HTTP 400 whatever the
\* state of the workbook and of the cache, and its step leaves every cache
\* slot as it was.
C23_PeriodBeforeLoad ==
    [][InvalidPeriodStep => (resp'.v.status = 400 /\ cache' = cache)]_vars

\* C28: a request of the network points endpoint for a timeType whose sheet
\* is in _CACHE is answered from the cached sheet, whatever the workbook has
\* become: its status is that of the cached sheet, also when the workbook
\* no longer exists.
C28_CachedSheetIgnoresFile ==
    (resp # None /\ resp.v.endpoint = "network_points_carbon"
        /\ resp.v.timeType \in TIME_MAP
        /\ cache.network[resp.v.timeType] # "empty")
    => resp.v.status = StatusFrom("network_points_carbon",
                                  cache.network[resp.v.timeType])

(***************************************************************************)
(* SpecNetwork: the network points endpoint on workbooks whose sheets vary *)
(* (network_carbon_points.py).  sheet is the workbook (None: no file; a    *)
(* sheet of the workbook that is None cannot be read), tableCache is the   *)
(* dict _CACHE, one slot per timeType.  A frame is its set of column       *)
(* names and its rows; a slot refers to the frame object that was read,    *)
(* so what a handler does to that object in place is seen in the slot.     *)
(***************************************************************************)

MaxPointRows == 2
MaxPoints == 2
MaxTimes == 3

NaT == [k |-> "NaT"]
TimeCell(n) == [k |-> "time", n |-> n]
PointCell(n) == [k |-> "point", n |-> n]

\* The texts pandas parses as dates, by day.
DateTexts == <<"2024-01-01", "2024-01-02", "2024-01-03", "2024-01-04">>

\* pd.to_datetime(cell, errors="coerce"): a timestamp is kept, a text that
\* is a date is parsed, anything else is NaT.
to_datetime(c) ==
    CASE c.k = "time" -> c
      [] c.k = "text" /\ (\E n \in DOMAIN DateTexts : DateTexts[n] = c.s) ->
            TimeCell(CHOOSE n \in DOMAIN DateTexts : DateTexts[n] = c.s)
      [] OTHER -> NaT

\* t.strftime("%Y-%m-%d %H:%M:%S")
strftime(c) == DateTexts[c.n] \o " 00:00:00"

\* str(r["point"])
PointName(c) == <<"P1", "P2", "P3">>[c.n]

\* The order of sort_values(["point", time_col]).
RowLeq(a, b, col) ==
    \/ a.point.n < b.point.n
    \/ a.point.n = b.point.n /\ a[col].n <= b[col].n

RECURSIVE InsertSorted(_, _, _)
InsertSorted(r, s, col) ==
    IF s = <<>> THEN <<r>>
    ELSE IF RowLeq(s[1], r, col) THEN <<s[1]>> \o InsertSorted(r, Tail(s), col)
    ELSE <<r>> \o s

RECURSIVE SortInto(_, _, _)
SortInto(rows, acc, col) ==
    IF rows = <<>> THEN acc
    ELSE SortInto(Tail(rows), InsertSorted(rows[1], acc, col), col)

\* df.sort_values(["point", time_col])
sort_values(rows, col) == SortInto(rows, <<>>, col)

\* df.groupby("point").tail(1): of every point the last row.
RECURSIVE GroupTail(_)
GroupTail(s) ==
    IF s = <<>> THEN <<>>
    ELSE IF \E j \in 2..Len(s) : s[j].point = s[1].point
         THEN GroupTail(Tail(s))
    ELSE <<s[1]>> \o GroupTail(Tail(s))

\* The time column of a frame: period, else ts, else none.
TimeColOf(columns) ==
    IF "period" \in columns THEN Some("period")
    ELSE IF "ts" \in columns THEN Some("ts") ELSE None

\* df[time_col] = pd.to_datetime(df[time_col], errors="coerce")
ConvertTime(df, col) ==
    [df EXCEPT !.rows = [i \in DOMAIN df.rows |->
                            [df.rows[i] EXCEPT ![col] = to_datetime(@)]]]

\* A variant of _latest_per_point that converts the time column of the frame
\* it was given, without the copy.
_latest_per_point_inplace(df) ==
    LET time_col == TimeColOf(df.columns)
    IN  IF "point" \notin df.columns \/ "CO2e_kg" \notin df.columns
           \/ time_col = None
        THEN [out |-> Http(500), df |-> df]
        ELSE LET conv == ConvertTime(df, time_col.v)
                 kept == SelectSeq(conv.rows,
                            LAMBDA r : r.point.k # "nan"
                                         /\ r[time_col.v].k # "NaT")
             IN  [out |-> Ok(GroupTail(sort_values(kept, time_col.v))),
                  df |-> conv]

\* _latest_per_point(df): out is what it returns or raises, df the frame of
\* the caller after the call.  The three columns are checked (500); the
\* frame is copied, the time column of the copy converted, the rows without
\* point or time dropped, the rest sorted and the last row of every point
\* taken.
_latest_per_point(df) ==
    LET time_col == TimeColOf(df.columns)
    IN  IF "point" \notin df.columns \/ "CO2e_kg" \notin df.columns
           \/ time_col = None
        THEN [out |-> Http(500), df |-> df]
        ELSE LET copy == ConvertTime(df, time_col.v)
                 kept == SelectSeq(copy.rows,
                            LAMBDA r : r.point.k # "nan"
                                         /\ r[time_col.v].k # "NaT")
             IN  [out |-> Ok(GroupTail(sort_values(kept, time_col.v))),
                  df |-> df]

\* _load_sheet(time_type) on the slots of _CACHE and the workbook.
network_load_sheet(slots, file, time_type) ==
    IF time_type \notin TIME_MAP THEN Loaded(Http(400), slots)
    ELSE IF file = None THEN Loaded(Http(404), slots)
    ELSE IF slots[time_type] # None
         THEN Loaded(Ok(slots[time_type].v), slots)
    ELSE IF file.v[time_type] = None THEN Loaded(Http(500), slots)
    ELSE Loaded(Ok(file.v[time_type].v),
                [slots EXCEPT ![time_type] = file.v[time_type]])

\* The items of the answer (lines 95-108).
PointItems(latest, time_col) ==
    [i \in DOMAIN latest |->
        PyDict(<< Item("name", PyStr(PointName(latest[i].point))),
                  Item("carbonKg",
                       PyFloat(IF latest[i].co2e.k = "nan" THEN 0
                               ELSE latest[i].co2e.milli)),
                  Item("monitorTime",
                       PyStr(IF latest[i][time_col].k = "NaT" THEN ""
                             ELSE strftime(latest[i][time_col]))) >>)]

\* network_points_carbon(body) as a function of _CACHE, the workbook and
\* timeType: the answer and _CACHE after it.
points_carbon_answer(slots, file, time_type) ==
    LET l == network_load_sheet(slots, file, time_type)
    IN  IF l.out.k = "http"
        THEN [resp |-> Response("network_points_carbon", time_type,
                                l.out.status, PyNone),
              slots |-> l.slot]
        ELSE LET lp == _latest_per_point(l.out.v)
                 after == [l.slot EXCEPT ![time_type] = Some(lp.df)]
             IN  IF lp.out.k = "http"
                 THEN [resp |-> Response("network_points_carbon", time_type,
                                         500, PyNone),
                       slots |-> after]
                 ELSE [resp |->
                         Response("network_points_carbon", time_type, 200,
                            PyDict(<<
                               Item("timeType", PyInt(time_type)),
                               Item("sheet", PyStr(SHEET_MAP(time_type))),
                               Item("count", PyInt(Len(lp.out.v))),
                               Item("data", PyList(PointItems(lp.out.v,
                                       TimeColOf(l.out.v.columns).v))) >>)),
                       slots |-> after]

\* POST /api/network/points-carbon
points_carbon ==
    \E timeType \in TimeTypes :
       LET a == points_carbon_answer(tableCache, sheet, timeType)
       IN  /\ resp' = Some(a.resp)
           /\ tableCache' = a.slots
           /\ UNCHANGED <<sheet, loaded, tableOut, fs, cache>>
           /\ UNCHANGED <<normVars, reportVars>>

PointRow(point, period, ts, co2e) ==
    [point |-> point, period |-> period, ts |-> ts, co2e |-> co2e]

\* Records of two points: timestamps, a date kept as text, a text that is
\* no date, a record without point and one without value.
PointRowVocab ==
    { PointRow(PointCell(MaxPoints), TimeCell(1), TimeCell(MaxTimes), NumCell(12345)),
      PointRow(PointCell(1), TextCell("2024-01-02"), TimeCell(1), NumCell(2500)),
      PointRow(PointCell(1), TimeCell(MaxTimes), TextCell("n/a"), NaNCell),
      PointRow(PointCell(1), TextCell("n/a"), TimeCell(2), NumCell(700)),
      PointRow(NaNCell, TimeCell(2), NaNCell, NumCell(1)) }

PointColumnSets ==
    { {"point", "CO2e_kg", "period", "ts"}, {"point", "CO2e_kg", "ts"},
      {"point", "CO2e_kg"}, {"CO2e_kg", "period"} }

PointFrames ==
    [columns : PointColumnSets, rows : SeqsUpTo(PointRowVocab, MaxPointRows)]

\* The good sheet of the other periods.
OtherFrame ==
    [columns |-> {"point", "CO2e_kg", "period", "ts"},
     rows |-> << PointRow(PointCell(1), TimeCell(1), TimeCell(1), NumCell(5000)) >>]

\* The workbooks: the daily sheet varies; the other sheets are good or
\* cannot be read.
Workbooks ==
    { [t \in TIME_MAP |-> IF t = 1 THEN a ELSE b] :
         a \in {None} \cup {Some(f) : f \in PointFrames},
         b \in {None, Some(OtherFrame)} }

EmptySlots == [t \in TIME_MAP |-> None]

InitNetwork ==
    /\ sheet \in {None} \cup {Some(w) : w \in Workbooks}
    /\ loaded = None
    /\ tableCache = EmptySlots
    /\ tableOut = None
    /\ IdleNormVars /\ IdleReportVars /\ IdleSvcVars

NextNetwork == points_carbon

SpecNetwork == InitNetwork /\ [][NextNetwork]_vars

\* C21: with the data files fixed, the answer to a request, after any
\* sequence of earlier requests, is the answer a fresh process gives to it,
\* and every cached sheet is the sheet as it was read: no request changes
\* the contents of a cached table.
C21_RepeatableRead ==
    /\ \A t \in TIME_MAP :
          tableCache[t] # None => (sheet # None /\ tableCache[t] = sheet.v[t])
    /\ resp # None =>
          resp.v = points_carbon_answer(EmptySlots, sheet,
                                        resp.v.timeType).resp

\* The daily sheet, with a date kept as text, is cached and so is another
\* sheet; the last answer is a success for the daily sheet that names the
\* latest record of both points.
C21_Witness ==
    /\ tableCache[1] # None /\ tableCache[4] # None
    /\ "period" \in tableCache[1].v.columns
    /\ \E i \in DOMAIN tableCache[1].v.rows :
          tableCache[1].v.rows[i].period.k = "text"
    /\ resp # None /\ resp.v.status = 200 /\ resp.v.timeType = 1
    /\ Field(resp.v.body, "count") = PyInt(2)

(***************************************************************************)
(* SpecDiagnosis: the diagnosis page (diagnosis_page.py).  report is the   *)
(* diagnosis file: None when it does not exist, the text it holds, or a    *)
(* file that cannot be read or decoded.  A text is a sequence of tokens:   *)
(* a line prefix, a marker, the characters "x" and " ", and the newline.   *)
(***************************************************************************)

MaxDiagLen == 4

DiagLimit   == "<U+6807><U+51C6><U+9650><U+503C>:"
DiagActual  == "<U+8BA1><U+7B97>O3<U+6295><U+52A0><U+6D53><U+5EA6>:"
DiagOver    == "<U+8D85><U+6807><U+91CF>:"
DiagPacNow  == "<U+5F53><U+524D>PAC<U+6295><U+52A0><U+91CF>:"
DiagPacRange == "<U+6B63><U+5E38><U+8303><U+56F4>:"
DiagTime    == "<U+8BCA><U+65AD><U+65F6><U+95F4>:"

O3OkMark      == "<U+2705> O3<U+6295><U+52A0><U+6D53><U+5EA6><U+672A><U+8D85><U+6807>"
EnergyHotMark == "<U+274C> <U+80FD><U+8017><U+70ED><U+70B9>: <U+53D6><U+6C34><U+6CF5><U+7AD9>"
PacHotMark    == "<U+274C> PAC<U+6295><U+52A0><U+91CF><U+8D85><U+6807>"

NotOver   == "<U+672A><U+8D85><U+6807>"
IsOver    == "<U+8D85><U+6807>"
NoHotspot == "<U+65E0>"
PacDosing == "PAC<U+6295><U+52A0>"
EnergyHotNone   == "<U+80FD><U+8017><U+70ED><U+70B9><U+FF1A><U+65E0>"
EnergyHotIntake == "<U+80FD><U+8017><U+70ED><U+70B9><U+FF1A><U+53D6><U+6C34><U+6CF5><U+7AD9>"

Unreadable == [k |-> "unreadable"]

\* _read_txt(): 404 when the file does not exist, 500 when open() or
\* read() raises, else the text.
_read_txt(file) ==
    IF file = None THEN Http(404)
    ELSE IF file = Unreadable THEN Http(500)
    ELSE Ok(file.v)

\* The positions where ^prefix matches under re.MULTILINE.
PrefixStarts(prefix, text) ==
    {i \in DOMAIN text :
        text[i] = prefix /\ (i = 1 \/ text[i - 1] = "\n")}

\* The positions where the group of \s*(.+)$ can start after the prefix at
\* i: only whitespace (newlines included) lies between, and the position
\* holds a character other than the newline.
GroupStarts(text, i) ==
    {j \in (i + 1)..Len(text) :
        /\ \A m \in (i + 1)..(j - 1) : text[m] \in Whitespace
        /\ text[j] # "\n"}

\* The last position of the line that holds position j.
LineEnd(text, j) ==
    Least({k \in j..Len(text) : k = Len(text) \/ text[k + 1] = "\n"})

\* A variant of _pick_line that answers the bare prefix when the line is
\* not found.
_pick_line_bare(prefix, text, default) ==
    LET starts == {i \in PrefixStarts(prefix, text) : GroupStarts(text, i) # {}}
    IN  IF starts = {} THEN <<prefix>>
        ELSE LET i == Least(starts)
                 j == Greatest(GroupStarts(text, i))
             IN  <<prefix, " ">> \o Strip(SubSeq(text, j, LineEnd(text, j)))

\* _pick_line(prefix, text, default): re.search of ^prefix\s*(.+)$ takes the
\* leftmost prefix that has a match; \s* is greedy, so the group starts as
\* late as it can and runs to the end of its line.
_pick_line(prefix, text, default) ==
    LET starts == {i \in PrefixStarts(prefix, text) : GroupStarts(text, i) # {}}
    IN  IF starts = {} THEN default
        ELSE LET i == Least(starts)
                 j == Greatest(GroupStarts(text, i))
             IN  <<prefix, " ">> \o Strip(SubSeq(text, j, LineEnd(text, j)))

\* _has(text, s)
_has(text, s) == Contains(text, <<s>>)

\* _build_html(text): the values put into the page.
_build_html(text) ==
    LET o3_ok == IF _has(text, O3OkMark) THEN NotOver ELSE IsOver
        energy_hot_line == IF _has(text, EnergyHotMark) THEN EnergyHotIntake
                           ELSE EnergyHotNone
        pac_hot == IF _has(text, PacHotMark) THEN PacDosing ELSE NoHotspot
    IN  [ ts_line |-> _pick_line(DiagTime, text, <<>>),
          o3_limit_line |-> _pick_line(DiagLimit, text, <<EmDash>>),
          o3_actual_line |-> _pick_line(DiagActual, text, <<EmDash>>),
          o3_ok |-> o3_ok,
          o3_class |-> IF o3_ok = NotOver THEN "ok" ELSE "bad",
          o3_over_line |-> IF o3_ok = NotOver THEN <<DiagOver, " ", "0">>
                           ELSE _pick_line(DiagOver, text,
                                           <<DiagOver, " ", EmDash>>),
          energy_hot_line |-> energy_hot_line,
          energy_class |-> IF energy_hot_line = EnergyHotIntake THEN "bad"
                           ELSE "ok",
          pac_hot |-> pac_hot,
          pac_class |-> IF pac_hot # NoHotspot THEN "bad" ELSE "ok",
          pac_current_line |-> _pick_line(DiagPacNow, text,
                                          <<DiagPacNow, " ", EmDash>>),
          pac_range_line |-> _pick_line(DiagPacRange, text,
                                        <<DiagPacRange, " ", EmDash>>) ]

\* GET /api/dashboard/diagnosis_page
diagnosis_page ==
    /\ LET text == _read_txt(report)
       IN  resp' = Some(IF text.k = "http"
                        THEN [endpoint |-> "diagnosis_page",
                              status |-> text.status]
                        ELSE [endpoint |-> "diagnosis_page", status |-> 200,
                              body |-> _build_html(text.v)])
    /\ UNCHANGED <<report, parsed, fs, cache>>
    /\ UNCHANGED <<normVars, loadVars>>

\* The tokens of the texts: three of the prefixes, one marker, a character,
\* the blank and the newline.
DiagTokens == {DiagLimit, DiagOver, DiagTime, O3OkMark, "x", " ", "\n"}

DiagFiles ==
    {None, Unreadable} \cup {Some(t) : t \in SeqsUpTo(DiagTokens, MaxDiagLen)}

InitDiagnosis ==
    /\ report \in DiagFiles
    /\ parsed = None
    /\ fs = None /\ cache = None /\ resp = None
    /\ IdleNormVars /\ IdleLoadVars

NextDiagnosis == diagnosis_page

SpecDiagnosis == InitDiagnosis /\ [][NextDiagnosis]_vars

\* The token s does not occur in the text.
Absent(text, s) == \A i \in DOMAIN text : text[i] # s

\* C22: the diagnosis page fails only for a file that does not exist (404)
\* or cannot be read (500); for every text it can read the answer is a
\* success page, and a field whose line or marker does not occur in the
\* text holds its fixed default.
C22_PageNeverFailsOnContent ==
    resp # None =>
       /\ resp.v.status = (IF report = None THEN 404
                           ELSE IF report = Unreadable THEN 500 ELSE 200)
       /\ resp.v.status = 200 =>
            LET text == report.v
                page == resp.v.body
            IN  /\ Absent(text, DiagTime) => page.ts_line = <<>>
                /\ Absent(text, DiagLimit) => page.o3_limit_line = <<EmDash>>
                /\ Absent(text, DiagActual) => page.o3_actual_line = <<EmDash>>
                /\ Absent(text, O3OkMark) =>
                      /\ page.o3_ok = IsOver /\ page.o3_class = "bad"
                      /\ Absent(text, DiagOver) =>
                            page.o3_over_line = <<DiagOver, " ", EmDash>>
                /\ Absent(text, EnergyHotMark) =>
                      page.energy_hot_line = EnergyHotNone
                /\ Absent(text, PacHotMark) => page.pac_hot = NoHotspot
                /\ Absent(text, DiagPacNow) =>
                      page.pac_current_line = <<DiagPacNow, " ", EmDash>>
                /\ Absent(text, DiagPacRange) =>
                      page.pac_range_line = <<DiagPacRange, " ", EmDash>>

\* A success page for a text in which none of the lines and markers occurs.
C22_Witness ==
    /\ resp # None /\ resp.v.status = 200
    /\ report.v # <<>>
    /\ \A s \in {DiagLimit, DiagActual, DiagOver, DiagPacNow, DiagPacRange,
                 DiagTime, O3OkMark, EnergyHotMark, PacHotMark} :
          Absent(report.v, s)
    /\ resp.v.body.o3_limit_line = <<EmDash>>
    /\ resp.v.body.o3_over_line = <<DiagOver, " ", EmDash>>

(***************************************************************************)
(* SpecMerge: the two endpoints that merge the inner-plant and the         *)
(* outer-plant sheet by segment (process_section_share.py,                 *)
(* process_section_total.py).  sheet is the workbook with its two sheets   *)
(* (None: it cannot be read), tableCache holds _SHARE_TABLE_CACHE and      *)
(* _TABLE_CACHE.  A row carries its segment name, its four share cells     *)
(* and its four total cells.                                               *)
(***************************************************************************)

MaxSectionRows == 2

RawWaterSegment == "<U+539F><U+6C34><U+53D6><U+6C34><U+6BB5>"

\* The segment names of the model in the order of Python's str comparison
\* (U+539F < U+8FC7 < U+9884).
AscendingSegments == <<RawWaterSegment, FilterSegment, PretreatSegment>>

\* The place of a name in that order.
Rank(name) == CHOOSE n \in DOMAIN AscendingSegments : AscendingSegments[n] = name

\* sorted(S)
RECURSIVE Sorted(_)
Sorted(S) ==
    IF S = {} THEN <<>>
    ELSE LET m == CHOOSE x \in S : \A y \in S : Rank(x) <= Rank(y)
         IN  <<m>> \o Sorted(S \ {m})

\* set(df.index) after set_index(SegCol)
IndexOf(df) == {df.rows[i].segment : i \in DOMAIN df.rows}

\* float(cell): a number, a text of digits, or ValueError.
PyFloatOf(c) ==
    IF c.k = "num" THEN Ok(c.milli)
    ELSE IF c.s # <<>> /\ \A i \in DOMAIN c.s : c.s[i] \in Digits
         THEN Ok(1000 * Decimal(c.s))
    ELSE Raise("ValueError")

\* float(df.at[sec, col]): with two rows of the label, .at answers a Series
\* and float() raises TypeError.
FloatAt(df, sec, field, t) ==
    LET sel == SelectSeq(df.rows, LAMBDA r : r.segment = sec)
    IN  IF Len(sel) = 1 THEN PyFloatOf(sel[1][field][t])
        ELSE Raise("TypeError")

\* A variant of the loader that assigns the slot as soon as the sheets are
\* read, before the columns are checked.
SectionLoad_eager(slot, file, cmap) ==
    IF slot # None THEN Loaded(Ok(slot.v), slot)
    ELSE IF file = None THEN Loaded(Http(500), slot)
    ELSE IF \E df \in {file.v.inner, file.v.outer} :
               ~ (({SegCol} \cup {cmap[t] : t \in 1..4}) \subseteq df.columns)
         THEN Loaded(Http(500), Some(file.v))
    ELSE Loaded(Ok(file.v), Some(file.v))

\* _load_share_tables() / _load_tables() for the required columns cmap: the
\* cached pair, or the two sheets read (500 when the file does not exist or
\* read_excel raises) and checked for the segment column and the four
\* columns (500); the slot is assigned last.
SectionLoad(slot, file, cmap) ==
    IF slot # None THEN Loaded(Ok(slot.v), slot)
    ELSE IF file = None THEN Loaded(Http(500), slot)
    ELSE IF \E df \in {file.v.inner, file.v.outer} :
               ~ (({SegCol} \cup {cmap[t] : t \in 1..4}) \subseteq df.columns)
         THEN Loaded(Http(500), slot)
    ELSE Loaded(Ok(file.v), Some(file.v))

\* A variant of the merge that reads the inner sheet only.
SectionSource_inner(tables, field, t) ==
    LET sections == Sorted(IndexOf(tables.inner))
        val(sec) == FloatAt(tables.inner, sec, field, t)
    IN  IF \E i \in DOMAIN sections : val(sections[i]).k = "raise"
        THEN Raise("Exception")
        ELSE Ok([i \in DOMAIN sections |->
                   PyDict(<< Item("name", PyStr(sections[i])),
                             Item("data", PyFloat(val(sections[i]).v)) >>)])

\* The loop of _build_share_source / _build_source on the loaded pair: the
\* sorted union of the two indexes, and per name the value of the inner
\* sheet plus the value of the outer sheet, each when the sheet has the
\* name.
SectionSource(tables, field, t) ==
    LET sections == Sorted(IndexOf(tables.inner) \cup IndexOf(tables.outer))
        part(df, sec) == IF sec \in IndexOf(df) THEN FloatAt(df, sec, field, t)
                         ELSE Ok(0)
        failed(sec) == \/ part(tables.inner, sec).k = "raise"
                       \/ part(tables.outer, sec).k = "raise"
    IN  IF \E i \in DOMAIN sections : failed(sections[i])
        THEN Raise("Exception")
        ELSE Ok([i \in DOMAIN sections |->
                   PyDict(<< Item("name", PyStr(sections[i])),
                             Item("data",
                                  PyFloat(part(tables.inner, sections[i]).v
                                          + part(tables.outer, sections[i]).v))
                          >>)])

\* The handler of either endpoint: 400 before any load for a timeType that
\* is no key, the load (500), the merge (an exception becomes 500), the
\* formatted answer.  The answer and the slot after it.
SectionAnswer(endpoint, slot, file, cmap, field, timeType) ==
    IF timeType \notin TIME_MAP
    THEN [resp |-> Response(endpoint, timeType, 400, PyNone), slot |-> slot]
    ELSE LET l == SectionLoad(slot, file, cmap)
         IN  IF l.out.k = "http"
             THEN [resp |-> Response(endpoint, timeType, l.out.status, PyNone),
                   slot |-> l.slot]
             ELSE LET source == SectionSource(l.out.v, field, timeType)
                  IN  [resp |->
                         Response(endpoint, timeType,
                            IF source.k = "raise" THEN 500 ELSE 200,
                            format_float_2d(Envelope(PyDict(<<
                               Item("dimensions",
                                    PyList(<<PyStr("name"), PyStr("data")>>)),
                               Item("source", PyList(source.v)),
                               Item("dimensionsMapping",
                                    PyList(<<PyStr("name"), PyStr("data")>>))
                               >>)))),
                       slot |-> l.slot]

\* POST /api/process/section_share
process_section_share ==
    \E timeType \in TimeTypes :
       LET a == SectionAnswer("section_share", tableCache.share, sheet,
                              col_map, "share", timeType)
       IN  /\ resp' = Some(a.resp)
           /\ tableCache' = [tableCache EXCEPT !.share = a.slot]
           /\ UNCHANGED <<sheet, loaded, tableOut, fs, cache>>
           /\ UNCHANGED <<normVars, reportVars>>

\* POST /api/process/section_total
process_section_total ==
    \E timeType \in TimeTypes :
       LET a == SectionAnswer("section_total", tableCache.total, sheet,
                              type_map, "total", timeType)
       IN  /\ resp' = Some(a.resp)
           /\ tableCache' = [tableCache EXCEPT !.total = a.slot]
           /\ UNCHANGED <<sheet, loaded, tableOut, fs, cache>>
           /\ UNCHANGED <<normVars, reportVars>>

SectionRow(segment, share, total) ==
    [segment |-> segment, share |-> share, total |-> total]

\* Rows of the inner sheet: two segments, one with a number kept as text
\* and one with a text that is no number; the raw-water segment, which the
\* outer sheet has too.
InnerRowVocab ==
    { SectionRow(PretreatSegment,
                 <<NumCell(12340), NumCell(20000), NumCell(30000), TextCell(<<"7">>)>>,
                 <<NumCell(1234), NumCell(5001), NumCell(6002), NumCell(90000)>>),
      SectionRow(FilterSegment,
                 <<NumCell(40121), TextCell(<<"n", "a">>), NumCell(1000), NumCell(2000)>>,
                 <<NumCell(303), NumCell(404), TextCell(<<"n", "a">>), TextCell(<<"1", "2">>)>>),
      SectionRow(RawWaterSegment,
                 <<NumCell(1004), NumCell(1004), NumCell(1004), NumCell(1004)>>,
                 <<NumCell(2222), NumCell(2222), NumCell(2222), NumCell(2222)>>) }

\* Rows of the outer sheet.
OuterRowVocab ==
    { SectionRow(RawWaterSegment,
                 <<NumCell(47539), NumCell(50000), NumCell(60000), NumCell(70000)>>,
                 <<NumCell(8001), NumCell(8002), NumCell(8003), NumCell(8004)>>),
      SectionRow(PretreatSegment,
                 <<NumCell(3), NumCell(3), NumCell(3), NumCell(3)>>,
                 <<NumCell(6), NumCell(6), NumCell(6), NumCell(6)>>) }

SectionColumns ==
    {SegCol} \cup {col_map[t] : t \in 1..4} \cup {type_map[t] : t \in 1..4}

\* The column sets of the inner sheet: every column, no yearly share, no
\* weekly total.
SectionColumnSets ==
    {SectionColumns, SectionColumns \ {col_map[4]},
     SectionColumns \ {type_map[2]}}

SectionWorkbooks ==
    [inner : [columns : SectionColumnSets,
              rows : SeqsUpTo(InnerRowVocab, MaxSectionRows)],
     outer : [columns : {SectionColumns},
              rows : SeqsUpTo(OuterRowVocab, 1)]]

InitMerge ==
    /\ sheet \in {None} \cup {Some(w) : w \in SectionWorkbooks}
    /\ loaded = None
    /\ tableCache = [share |-> None, total |-> None]
    /\ tableOut = None
    /\ IdleNormVars /\ IdleReportVars /\ IdleSvcVars

NextMerge == process_section_share \/ process_section_total

SpecMerge == InitMerge /\ [][NextMerge]_vars

\* The number a cell stands for, in thousandths.
CellNumber(c) == IF c.k = "num" THEN c.milli ELSE 1000 * Decimal(c.s)

\* The sum of the cells of period t over the rows of the segment: 0 for a
\* sheet without the segment.
RECURSIVE SheetValue(_, _, _, _)
SheetValue(rows, sec, field, t) ==
    IF rows = <<>> THEN 0
    ELSE (IF rows[1].segment = sec THEN CellNumber(rows[1][field][t]) ELSE 0)
         + SheetValue(Tail(rows), sec, field, t)

\* C25: the source list of a successful section_share or section_total
\* answer holds one entry per segment name of either sheet, in ascending
\* name order, and the value of an entry is the value of the inner sheet
\* plus the value of the outer sheet in the column of the period, a sheet
\* without the segment contributing 0.
C25_MergedBySegment ==
    (resp # None /\ resp.v.status = 200
        /\ resp.v.endpoint \in {"section_share", "section_total"})
    => LET source == Field(Field(resp.v.body, "data"), "source").items
           field  == IF resp.v.endpoint = "section_share" THEN "share"
                     ELSE "total"
           t      == resp.v.timeType
           name(i) == Field(source[i], "name").v
       IN  /\ {name(i) : i \in DOMAIN source}
                = IndexOf(sheet.v.inner) \cup IndexOf(sheet.v.outer)
           /\ \A i, j \in DOMAIN source : i < j => Rank(name(i)) < Rank(name(j))
           /\ \A i \in DOMAIN source :
                 Field(source[i], "data")
                   = PyFloat(Round2(
                        SheetValue(sheet.v.inner.rows, name(i), field, t)
                        + SheetValue(sheet.v.outer.rows, name(i), field, t)))

\* A yearly share answer for an inner sheet with two segments, one value
\* kept as text, and an outer sheet with one of them: two entries, the
\* raw-water segment first, the value of the other the sum of both sheets.
C25_Witness ==
    /\ resp # None /\ resp.v.status = 200
    /\ resp.v.endpoint = "section_share" /\ resp.v.timeType = 4
    /\ IndexOf(sheet.v.inner) = {PretreatSegment, RawWaterSegment}
    /\ IndexOf(sheet.v.outer) = {PretreatSegment}
    /\ Field(Field(resp.v.body, "data"), "source")
         = PyList(<< PyDict(<< Item("name", PyStr(RawWaterSegment)),
                               Item("data", PyFloat(1000)) >>),
                     PyDict(<< Item("name", PyStr(PretreatSegment)),
                               Item("data", PyFloat(7000)) >>) >>)

(***************************************************************************)
(* SpecTrend: the trend endpoints of the filter segment and of the         *)
(* clear-water (supply) segment (process_inner_<U+8FC7><U+6EE4><U+6BB5>.py,*)
(* process_inner_<U+6E05><U+6C34><U+5904><U+7406><U+6BB5>.py).  sheet is   *)
(* the workbook with its inner and outer section sheet (None: it cannot be *)
(* read), tableCache holds the _SECTION_TABLE of either module.  A row     *)
(* carries its segment name and its total, electricity and chemical cells. *)
(***************************************************************************)

MaxTrendRows == 2

ChYao == "U+836F"   \* first character of "chemical use" (yao)

SupplySegment == "<U+4F9B><U+6C34><U+6BB5>"

\* f"<chemical use>_{suffix}" by timeType
CHEM_COL_MAP ==
    << ColumnName(<<ChYao, ChHao>>, ChRi), ColumnName(<<ChYao, ChHao>>, ChZhou),
       ColumnName(<<ChYao, ChHao>>, ChYue), ColumnName(<<ChYao, ChHao>>, ChNian) >>

\* The column of a field of the rows for period t.
TrendColumn(field, t) ==
    CASE field = "total" -> type_map[t]
      [] field = "elec"  -> ELEC_CARBON_COL_MAP[t]
      [] field = "chem"  -> CHEM_COL_MAP[t]

TrendFields == {"total", "elec", "chem"}

TrendColumns ==
    {SegCol} \cup {TrendColumn(f, t) : f \in TrendFields, t \in 1..4}

\* pd.to_numeric(...).fillna(0.0) on the given columns of a frame.
CoerceTrend(df, cols) ==
    [df EXCEPT !.rows =
        [i \in DOMAIN df.rows |->
           [f \in DOMAIN df.rows[i] |->
              IF f \in TrendFields
              THEN [t \in 1..4 |->
                      IF TrendColumn(f, t) \in cols
                      THEN NumCell(CoerceCell(df.rows[i][f][t]))
                      ELSE df.rows[i][f][t]]
              ELSE df.rows[i][f]]]]

\* load_section_table() of the filter module: the segment column is
\* required; the numeric columns the sheet has are coerced.
filter_load_section_table(slot, file) ==
    IF slot # None THEN Loaded(Ok(slot.v), slot)
    ELSE IF file = None THEN Loaded(Http(500), slot)
    ELSE IF SegCol \notin file.v.inner.columns THEN Loaded(Http(500), slot)
    ELSE LET df == CoerceTrend(file.v.inner, file.v.inner.columns)
         IN  Loaded(Ok(df), Some(df))

\* load_section_table() of the clear-water module: all thirteen columns are
\* required, and coerced.
clearwater_load_section_table(slot, file) ==
    IF slot # None THEN Loaded(Ok(slot.v), slot)
    ELSE IF file = None THEN Loaded(Http(500), slot)
    ELSE IF ~ (TrendColumns \subseteq file.v.outer.columns)
         THEN Loaded(Http(500), slot)
    ELSE LET df == CoerceTrend(file.v.outer, TrendColumns)
         IN  Loaded(Ok(df), Some(df))

\* float(df[col].sum())
RECURSIVE FieldSum(_, _, _)
FieldSum(rows, field, t) ==
    IF rows = <<>> THEN 0
    ELSE rows[1][field][t].milli + FieldSum(Tail(rows), field, t)

\* The body of a trend answer (lines 222-268 of the filter module).
section_trend_body(t, total_val, elec_val, chem_val) ==
    Envelope(PyDict(
      << Item("id", PyStr("80")),
         Item("styleType", PyStr("0")),
         Item("customOption", PyDict(<<>>)),
         Item("xAxis", PyList(<< PyDict(
            << Item("type", PyStr("category")), Item("name", PyStr("")),
               Item("data", PyList(<<PyStr(PeriodLabel(t))>>)) >>) >>)),
         Item("yAxis", PyList(<< PyDict(
            << Item("name", PyStr("kgCO<U+2082>e")),
               Item("type", PyStr("value")) >>) >>)),
         Item("series", PyList(
            << TrendSeries("<U+603B><U+78B3><U+6392>", total_val),
               TrendSeries("<U+7535><U+8017><U+78B3><U+6392>", elec_val),
               TrendSeries("<U+836F><U+8017><U+78B3><U+6392>", chem_val) >>)),
         Item("colors", PyList(
            << PyStr("#4992ff"), PyStr("#7cffb2"), PyStr("#dd79ff"),
               PyStr("#fddd60"), PyStr("#ff6e76"), PyStr("#58d9f9"),
               PyStr("#05c091"), PyStr("#ff8a45"), PyStr("#8d48e3") >>)) >>))

\* A variant of the trend handlers that takes qtype as a unit number, as
\* the raw-water trend does.
SectionTrend_by_unit(endpoint, l, segment, timeType, qtype) ==
    IF l.out.k = "http"
    THEN [resp |-> Response(endpoint, timeType, l.out.status, PyNone),
          slot |-> l.slot]
    ELSE LET seg == SelectSeq(l.out.v.rows, LAMBDA r : r.segment = segment)
             status ==
                IF seg = <<>> THEN 500
                ELSE IF qtype \notin 1..3 THEN 400
                ELSE IF \E f \in TrendFields :
                           TrendColumn(f, timeType) \notin l.out.v.columns
                     THEN 500
                ELSE 200
         IN  [resp |-> Response(endpoint, timeType, status,
                          section_trend_body(timeType,
                             FieldSum(seg, "total", timeType),
                             FieldSum(seg, "elec", timeType),
                             FieldSum(seg, "chem", timeType))),
              slot |-> l.slot]

\* filter_trend / clearwater_trend after _period_suffix, on the outcome l of
\* load_section_table(): the rows of the segment are selected (500 when
\* there is none), the three columns of the period are required (500) and
\* summed.  body.qtype is not read.
SectionTrend(endpoint, l, segment, timeType, qtype) ==
    IF l.out.k = "http"
    THEN [resp |-> Response(endpoint, timeType, l.out.status, PyNone),
          slot |-> l.slot]
    ELSE LET seg == SelectSeq(l.out.v.rows, LAMBDA r : r.segment = segment)
             status ==
                IF seg = <<>> THEN 500
                ELSE IF \E f \in TrendFields :
                           TrendColumn(f, timeType) \notin l.out.v.columns
                     THEN 500
                ELSE 200
         IN  [resp |-> Response(endpoint, timeType, status,
                          section_trend_body(timeType,
                             FieldSum(seg, "total", timeType),
                             FieldSum(seg, "elec", timeType),
                             FieldSum(seg, "chem", timeType))),
              slot |-> l.slot]

\* The handler of an endpoint as a function of the slots, the workbook and
\* the request: the answer and the slots after it.  _period_suffix comes
\* first (400).
TrendAnswer(endpoint, slots, file, timeType, qtype) ==
    IF timeType \notin TIME_MAP
    THEN [resp |-> Response(endpoint, timeType, 400, PyNone), slots |-> slots]
    ELSE IF endpoint = "filter_trend"
    THEN LET a == SectionTrend(endpoint,
                     filter_load_section_table(slots.filter, file),
                     FilterSegment, timeType, qtype)
         IN  [resp |-> a.resp, slots |-> [slots EXCEPT !.filter = a.slot]]
    ELSE LET a == SectionTrend(endpoint,
                     clearwater_load_section_table(slots.clearwater, file),
                     SupplySegment, timeType, qtype)
         IN  [resp |-> a.resp, slots |-> [slots EXCEPT !.clearwater = a.slot]]

\* The qtype values of the trend requests: the units, and integers that
\* are no unit.
TrendQTypes == QTypes \cup {0}

\* A request of an endpoint; the answer is kept with the qtype it was
\* asked with.
TrendRequest(endpoint) ==
    \E timeType \in TimeTypes, qtype \in TrendQTypes :
       LET a == TrendAnswer(endpoint, tableCache, sheet, timeType, qtype)
       IN  /\ resp' = Some([qtype |-> qtype] @@ a.resp)
           /\ tableCache' = a.slots
           /\ UNCHANGED <<sheet, loaded, tableOut, fs, cache>>
           /\ UNCHANGED <<normVars, reportVars>>

\* POST /api/process/inner/<filter>/trend
filter_trend == TrendRequest("filter_trend")

\* POST /api/process/inner/<clear water>/trend
clearwater_trend == TrendRequest("clearwater_trend")

TrendRow(segment, total, elec, chem) ==
    [segment |-> segment, total |-> total, elec |-> elec, chem |-> chem]

\* Rows of the section sheets: the filter segment with numbers, the filter
\* segment with texts, the supply segment.
TrendRowVocab ==
    { TrendRow(FilterSegment,
               <<NumCell(5678), NumCell(2), NumCell(3), NumCell(40001)>>,
               <<NumCell(4444), NumCell(2), NumCell(3), NumCell(30001)>>,
               <<NumCell(1234), NumCell(0), NumCell(0), NumCell(10000)>>),
      TrendRow(FilterSegment,
               <<TextCell(<<"7">>), NaNCell, NumCell(3), TextCell(<<"n", "a">>)>>,
               <<TextCell(<<"5">>), NaNCell, NumCell(3), NumCell(8)>>,
               <<TextCell(<<"2">>), NaNCell, NumCell(0), NaNCell>>),
      TrendRow(SupplySegment,
               <<NumCell(9001), NumCell(2), NumCell(3), NumCell(70007)>>,
               <<NumCell(9001), NumCell(2), NumCell(3), NumCell(70007)>>,
               <<NumCell(0), NumCell(0), NumCell(0), TextCell(<<"x">>)>>) }

TrendFrames ==
    [columns : {TrendColumns, TrendColumns \ {CHEM_COL_MAP[4]}},
     rows : SeqsUpTo(TrendRowVocab, MaxTrendRows)]

\* The outer sheet has the supply segment or no row.
OuterTrendFrames ==
    [columns : {TrendColumns, TrendColumns \ {CHEM_COL_MAP[4]}},
     rows : SeqsUpTo({r \in TrendRowVocab : r.segment = SupplySegment}, 1)]

InitTrend ==
    /\ sheet \in {None} \cup
                 {Some([inner |-> a, outer |-> b]) :
                     a \in TrendFrames, b \in OuterTrendFrames}
    /\ loaded = None
    /\ tableCache = [filter |-> None, clearwater |-> None]
    /\ tableOut = None
    /\ IdleNormVars /\ IdleReportVars /\ IdleSvcVars

NextTrend == filter_trend \/ clearwater_trend

SpecTrend == InitTrend /\ [][NextTrend]_vars

\* The request answered by this step, asked with the qtype q instead, gets
\* the same answer and leaves the same slots.
SameForQType(q) ==
    LET a == TrendAnswer(resp'.v.endpoint, tableCache, sheet,
                         resp'.v.timeType, q)
    IN  /\ resp'.v = [qtype |-> resp'.v.qtype] @@ a.resp
        /\ tableCache' = a.slots

\* C26: in the filter and the clear-water trend endpoint qtype takes no part
\* in the computation: the answer to a request, a success or an error, and
\* the cache after it are those of the same request with any other qtype.
C26_QTypeIgnored ==
    [][resp' # None => \A q \in TrendQTypes : SameForQType(q)]_vars

\* A successful daily filter trend asked with a qtype that is no unit
\* number, summed over a numeric row and a row kept as text, after a
\* clear-water trend request had loaded its table.
C26_Witness ==
    /\ resp # None /\ resp.v.endpoint = "filter_trend"
    /\ resp.v.qtype = MaxQType /\ resp.v.status = 200 /\ resp.v.timeType = 1
    /\ Field(Field(resp.v.body, "data"), "series").items[1]
         = TrendSeries("<U+603B><U+78B3><U+6392>", 12678)
    /\ tableCache.clearwater # None

(***************************************************************************)
(* SpecRetry: the two merge endpoints while the workbook is replaced       *)
(* between requests.  loaded keeps the last answer given before the        *)
(* workbook was last replaced.                                             *)
(***************************************************************************)

\* The workbooks that replace one another: no readable workbook, a complete
\* one, one without the yearly share column, one without the weekly total
\* column.
RetryWorkbooks ==
    {None} \cup
    {Some(w) : w \in {x \in SectionWorkbooks :
                         /\ Len(x.inner.rows) = 1
                         /\ x.inner.rows[1].segment = RawWaterSegment
                         /\ x.outer.rows = <<>>}}

\* Between two requests the workbook is replaced, removed or repaired.
WorkbookChange ==
    /\ \E w \in RetryWorkbooks : w # sheet /\ sheet' = w
    /\ loaded' = resp
    /\ UNCHANGED <<tableCache, tableOut, fs, cache, resp>>
    /\ UNCHANGED <<normVars, reportVars>>

InitRetry ==
    /\ sheet \in RetryWorkbooks
    /\ loaded = None
    /\ tableCache = [share |-> None, total |-> None]
    /\ tableOut = None
    /\ IdleNormVars /\ IdleReportVars /\ IdleSvcVars

NextRetry == process_section_share \/ process_section_total \/ WorkbookChange

SpecRetry == InitRetry /\ [][NextRetry]_vars

\* The slot and the required columns of an endpoint.
SlotOf(endpoint) == IF endpoint = "section_share" THEN "share" ELSE "total"
RequiredOf(endpoint) ==
    {SegCol} \cup {(IF endpoint = "section_share" THEN col_map ELSE type_map)[t]
                      : t \in 1..4}

\* The workbook can be read and both sheets have the columns the endpoint
\* requires.
Loadable(file, endpoint) ==
    /\ file # None
    /\ RequiredOf(endpoint) \subseteq file.v.inner.columns
    /\ RequiredOf(endpoint) \subseteq file.v.outer.columns

\* This step answered a request with a valid timeType on an empty slot.
FirstAccess ==
    /\ sheet' = sheet /\ resp' # None
    /\ resp'.v.timeType \in TIME_MAP
    /\ tableCache[SlotOf(resp'.v.endpoint)] = None

============================================================================
